---- MODULE Spec2Model ----
(***************************************************************************)
(* SEO analyzer backend: the single-page analysis of SEOAnalyzer           *)
(* (src/seo_analyzer.py).  analyze_website fetches a page, parses it,      *)
(* collects metrics, runs five categories of point-scored checks and sums  *)
(* the scores into an overall percentage.                                  *)
(*                                                                         *)
(* Text is a sequence of characters; an element list is a sequence of      *)
(* elements; an attribute is a sequence holding zero or one value.  A      *)
(* call returns Ret(v) or Throw(kind), and a handler that gets a Throw it  *)
(* does not catch propagates it to the except clauses of analyze_website.  *)
(* The recommendation and priority fields of a check are not modelled.     *)
(***************************************************************************)
EXTENDS Integers, Sequences, FiniteSets, TLC

\* ------------------------------------------------------------- bounds ----
MaxH1 == 2
MaxImages == 2
MaxCategories == 2
MaxChecks == 2
MaxTicks == 2
MaxEntries == 2
MaxCalls == 3
MaxReports == 3
MaxSeconds == 1
MaxRuns == 2
MaxConfigs == 2

\* ---------------------------------------------------- program constants --
TitleLimit == 60
DescriptionLimit == 160
HTTP_OK == 200
AdequateWords == 300
GoodWords == 500
FastLoadMs == 1000
SlowLoadMs == 3000

\* ---------------------------------------------------------------- text ---
Rep(c, n) == [i \in 1..n |-> c]

Pad(s) == <<" ">> \o s \o <<" ", " ">>

Str(s) == <<s>>

\* str.lstrip() and str.rstrip()
RECURSIVE lstrip(_)
lstrip(s) == IF s # <<>> /\ Head(s) = " " THEN lstrip(Tail(s)) ELSE s

RECURSIVE rstrip(_)
rstrip(s) ==
    IF s # <<>> /\ s[Len(s)] = " " THEN rstrip(SubSeq(s, 1, Len(s) - 1))
    ELSE s

\* str.strip(): the text without its leading and trailing white space
strip(s) == rstrip(lstrip(s))

\* needle in haystack, for Python strings
Contains(haystack, needle) ==
    \E i \in 0..(Len(haystack) - Len(needle)) :
        SubSeq(haystack, i + 1, i + Len(needle)) = needle

\* a call's outcome: a returned value or a raised exception
Ret(v) == [raised |-> FALSE, value |-> v]

Throw(kind) == [raised |-> TRUE, kind |-> kind]

\* Python's None
None == [none |-> TRUE]

IsNone(x) == "none" \in DOMAIN x

\* ------------------------------------------------------------- inputs ----
\* <title> elements of the page, in document order
Titles ==
    { <<>>,
      << <<>> >>,
      << Rep(" ", 2) >>,
      << Rep("a", TitleLimit) >>,
      << Pad(Rep("a", TitleLimit)) >>,
      << Rep("a", TitleLimit + 1) >> }

\* <meta name="description"> elements; each is its content attribute
MetaDescriptions ==
    { <<>>,
      << <<>> >>,
      << <<Rep(" ", 1)>> >>,
      << <<Rep("a", DescriptionLimit)>> >>,
      << <<Pad(Rep("a", DescriptionLimit))>> >>,
      << <<Rep("a", DescriptionLimit + 1)>> >> }

H1Lists == {Rep("h1", n) : n \in 0..MaxH1}

\* the alt attribute of an <img>: absent, empty, or a text
AltAttrs == { <<>>, << <<>> >>, << Str("x") >> }

ImageLists == UNION {[1..n -> AltAttrs] : n \in 0..MaxImages}

WordCounts == {0, AdequateWords - 1, AdequateWords, GoodWords - 1, GoodWords}

LoadTimes == {FastLoadMs - 1, FastLoadMs, SlowLoadMs - 1, SlowLoadMs}

\* the Content-Encoding response header: absent or one value
ContentEncodings ==
    { <<>>,
      << <<"g", "z", "i", "p">> >>,
      << <<"b", "r">> >>,
      << <<"x", "-", "g", "z", "i", "p">> >> }

\* the URL texts passed to analyze_website or reached by its redirects
HttpUrl == <<"h", "t", "t", "p", ":", "/", "/", "h">>

HttpsUrl == <<"h", "t", "t", "p", "s", ":", "/", "/", "h">>

Urls == {HttpUrl, HttpsUrl}

\* what a GET can do: answer with a status code or raise
Statuses == {HTTP_OK, 404}

ProbeAnswers == {Ret(s) : s \in Statuses} \cup {Throw("ProbeError")}

\* the answers to the GET of /robots.txt: also a server error
RobotsAnswers == ProbeAnswers \cup {Ret(503)}

FetchFailures == {"ConnectionError", "Timeout", "SSLError", "HTTPError"}

FetchOutcomes == {"ok"} \cup FetchFailures

\* a page as served: the parsed document and the response around it
GoodSite ==
    [ title |-> << Rep("a", TitleLimit) >>,
      meta_description |-> << <<Rep("a", DescriptionLimit)>> >>,
      h1 |-> Rep("h1", 1),
      img |-> <<>>,
      bad_href |-> FALSE,
      words |-> GoodWords,
      viewport |-> TRUE,
      content_encoding |-> << <<"g", "z", "i", "p">> >>,
      load_time_ms |-> FastLoadMs - 1 ]

PoorSite ==
    [ title |-> <<>>,
      meta_description |-> <<>>,
      h1 |-> <<>>,
      img |-> << <<>> >>,
      bad_href |-> FALSE,
      words |-> 0,
      viewport |-> FALSE,
      content_encoding |-> <<>>,
      load_time_ms |-> SlowLoadMs ]

\* the sites that differ from s in at most one feature
Vary(s) ==
    {[s EXCEPT !.title = v] : v \in Titles}
    \cup {[s EXCEPT !.meta_description = v] : v \in MetaDescriptions}
    \cup {[s EXCEPT !.h1 = v] : v \in H1Lists}
    \cup {[s EXCEPT !.img = v] : v \in ImageLists}
    \cup {[s EXCEPT !.bad_href = v] : v \in BOOLEAN}
    \cup {[s EXCEPT !.words = v] : v \in WordCounts}
    \cup {[s EXCEPT !.viewport = v] : v \in BOOLEAN}
    \cup {[s EXCEPT !.content_encoding = v] : v \in ContentEncodings}
    \cup {[s EXCEPT !.load_time_ms = v] : v \in LoadTimes}

\* the sites analysed: a good and a poor page, each changed in up to one
\* feature
Sites == Vary(GoodSite) \cup Vary(PoorSite)

\* ------------------------------------------------------------ checks ----
Check(name, status, score, max_score, message) ==
    [ name |-> name, status |-> status, score |-> score,
      max_score |-> max_score, message |-> message ]

\* str.startswith
startswith(s, prefix) ==
    Len(s) >= Len(prefix) /\ SubSeq(s, 1, Len(prefix)) = prefix

HttpsPrefix == <<"h", "t", "t", "p", "s", ":", "/", "/">>

\* mutation: the limit itself already counts as too long
title_tag_at_limit(soup) ==
    IF soup.title # <<>>
    THEN LET title_text == strip(soup.title[1])
         IN  IF Len(title_text) = 0
             THEN Check("title_tag", "fail", 0, 10, <<"Title tag is empty">>)
             ELSE IF Len(title_text) >= TitleLimit
             THEN Check("title_tag", "warning", 7, 10,
                        <<"Title tag is too long", Len(title_text)>>)
             ELSE Check("title_tag", "pass", 10, 10,
                        <<"Title tag length is optimal", Len(title_text)>>)
    ELSE Check("title_tag", "fail", 0, 10, <<"Title tag is missing">>)

title_tag(soup) ==
    IF soup.title # <<>>
    THEN LET title_text == strip(soup.title[1])
         IN  IF Len(title_text) = 0
             THEN Check("title_tag", "fail", 0, 10, <<"Title tag is empty">>)
             ELSE IF Len(title_text) > TitleLimit
             THEN Check("title_tag", "warning", 7, 10,
                        <<"Title tag is too long", Len(title_text)>>)
             ELSE Check("title_tag", "pass", 10, 10,
                        <<"Title tag length is optimal", Len(title_text)>>)
    ELSE Check("title_tag", "fail", 0, 10, <<"Title tag is missing">>)

\* meta_desc.get('content', ''): the attribute's value, or the empty text
get_content(meta_desc) == IF meta_desc = <<>> THEN <<>> ELSE meta_desc[1]

\* mutation: the content is measured without being trimmed
meta_description_untrimmed(soup) ==
    IF soup.meta_description # <<>>
    THEN LET desc_content == get_content(soup.meta_description[1])
         IN  IF Len(desc_content) = 0
             THEN Check("meta_description", "fail", 0, 10,
                        <<"Meta description is empty">>)
             ELSE IF Len(desc_content) > DescriptionLimit
             THEN Check("meta_description", "warning", 7, 10,
                        <<"Meta description is too long", Len(desc_content)>>)
             ELSE Check("meta_description", "pass", 10, 10,
                        <<"Meta description length is optimal",
                          Len(desc_content)>>)
    ELSE Check("meta_description", "fail", 0, 10,
               <<"Meta description is missing">>)

meta_description(soup) ==
    IF soup.meta_description # <<>>
    THEN LET desc_content == strip(get_content(soup.meta_description[1]))
         IN  IF Len(desc_content) = 0
             THEN Check("meta_description", "fail", 0, 10,
                        <<"Meta description is empty">>)
             ELSE IF Len(desc_content) > DescriptionLimit
             THEN Check("meta_description", "warning", 7, 10,
                        <<"Meta description is too long", Len(desc_content)>>)
             ELSE Check("meta_description", "pass", 10, 10,
                        <<"Meta description length is optimal",
                          Len(desc_content)>>)
    ELSE Check("meta_description", "fail", 0, 10,
               <<"Meta description is missing">>)

\* mutation: any number of H1 elements passes
h1_tag_any(soup) ==
    LET h1_tags == soup.h1
    IN  IF Len(h1_tags) = 0
        THEN Check("h1_tag", "fail", 0, 10, <<"No H1 tag found">>)
        ELSE Check("h1_tag", "pass", 10, 10, <<"Single H1 tag found">>)

h1_tag(soup) ==
    LET h1_tags == soup.h1
    IN  IF Len(h1_tags) = 0
        THEN Check("h1_tag", "fail", 0, 10, <<"No H1 tag found">>)
        ELSE IF Len(h1_tags) > 1
        THEN Check("h1_tag", "warning", 5, 10,
                   <<"Multiple H1 tags found", Len(h1_tags)>>)
        ELSE Check("h1_tag", "pass", 10, 10, <<"Single H1 tag found">>)

_check_seo_factors(url, soup, response) ==
    Ret(<<title_tag(soup), meta_description(soup), h1_tag(soup)>>)

ssl_certificate(url) ==
    IF startswith(url, HttpsPrefix)
    THEN Check("ssl_certificate", "pass", 10, 10,
               <<"SSL certificate is present">>)
    ELSE Check("ssl_certificate", "fail", 0, 10,
               <<"No SSL certificate found">>)

robots_txt(robots_exists) ==
    IF robots_exists
    THEN Check("robots_txt", "pass", 5, 5, <<"Robots.txt file found">>)
    ELSE Check("robots_txt", "warning", 0, 5, <<"Robots.txt file not found">>)

\* mutation: a found sitemap is given the points of the larger checks
xml_sitemap_ten_points(sitemap_exists) ==
    IF sitemap_exists
    THEN Check("xml_sitemap", "pass", 10, 5, <<"XML sitemap found">>)
    ELSE Check("xml_sitemap", "warning", 0, 5, <<"XML sitemap not found">>)

xml_sitemap(sitemap_exists) ==
    IF sitemap_exists
    THEN Check("xml_sitemap", "pass", 5, 5, <<"XML sitemap found">>)
    ELSE Check("xml_sitemap", "warning", 0, 5, <<"XML sitemap not found">>)

\* mutation: the exception of the GET is not caught
_check_robots_txt_uncaught(answer) ==
    IF answer.raised THEN answer ELSE Ret(answer.value = HTTP_OK)

\* answer: what the GET of /robots.txt does
_check_robots_txt(answer) ==
    IF answer.raised THEN Ret(FALSE) ELSE Ret(answer.value = HTTP_OK)

\* the for loop over sitemap_urls; answers: what the GET of each URL does
RECURSIVE sitemap_loop(_)
sitemap_loop(answers) ==
    IF answers = <<>> THEN Ret(FALSE)
    ELSE IF Head(answers).raised THEN Head(answers)
    ELSE IF Head(answers).value = HTTP_OK THEN Ret(TRUE)
    ELSE sitemap_loop(Tail(answers))

\* mutation: each GET is guarded on its own, so the loop goes on after a
\* failed one
_check_sitemap_each_guarded(answers) ==
    Ret(\E i \in 1..Len(answers) :
            ~answers[i].raised /\ answers[i].value = HTTP_OK)

_check_sitemap(answers) ==
    LET r == sitemap_loop(answers)
    IN  IF r.raised THEN Ret(FALSE) ELSE r

\* mutation: the robots.txt check is built from the result of the sitemap
\* probes
_check_technical_factors_one_probe(url, robots_answer, sitemap_answers) ==
    LET robots_exists == _check_robots_txt(robots_answer)
        sitemap_exists == _check_sitemap(sitemap_answers)
    IN  IF robots_exists.raised THEN robots_exists
        ELSE IF sitemap_exists.raised THEN sitemap_exists
        ELSE Ret(<<ssl_certificate(url), robots_txt(sitemap_exists.value),
                   xml_sitemap(sitemap_exists.value)>>)

_check_technical_factors(url, robots_answer, sitemap_answers) ==
    LET robots_exists == _check_robots_txt(robots_answer)
        sitemap_exists == _check_sitemap(sitemap_answers)
    IN  IF robots_exists.raised THEN robots_exists
        ELSE IF sitemap_exists.raised THEN sitemap_exists
        ELSE Ret(<<ssl_certificate(url), robots_txt(robots_exists.value),
                   xml_sitemap(sitemap_exists.value)>>)

\* not img.get('alt'): the attribute is absent or its value is empty
no_alt(img) == img = <<>> \/ img[1] = <<>>

\* mutation: only an absent alt attribute counts as missing
image_alt_attributes_present(soup) ==
    LET images == soup.img
        absent(img) == img = <<>>
        images_without_alt == SelectSeq(images, absent)
    IN  IF Len(images) = 0
        THEN Check("image_alt_attributes", "info", 5, 5,
                   <<"No images found on page">>)
        ELSE IF Len(images_without_alt) = 0
        THEN Check("image_alt_attributes", "pass", 10, 10,
                   <<"All images have alt attributes">>)
        ELSE Check("image_alt_attributes", "warning", 5, 10,
                   <<"images missing alt attributes",
                     Len(images_without_alt), Len(images)>>)

image_alt_attributes(soup) ==
    LET images == soup.img
        images_without_alt == SelectSeq(images, no_alt)
    IN  IF Len(images) = 0
        THEN Check("image_alt_attributes", "info", 5, 5,
                   <<"No images found on page">>)
        ELSE IF Len(images_without_alt) = 0
        THEN Check("image_alt_attributes", "pass", 10, 10,
                   <<"All images have alt attributes">>)
        ELSE Check("image_alt_attributes", "warning", 5, 10,
                   <<"images missing alt attributes",
                     Len(images_without_alt), Len(images)>>)

\* mutation: the lower limits belong to the band below them
content_length_inclusive(soup) ==
    LET word_count == soup.words
    IN  IF word_count <= AdequateWords
        THEN Check("content_length", "warning", 3, 10,
                   <<"Content is quite short", word_count>>)
        ELSE IF word_count <= GoodWords
        THEN Check("content_length", "pass", 7, 10,
                   <<"Content length is adequate", word_count>>)
        ELSE Check("content_length", "pass", 10, 10,
                   <<"Content length is good", word_count>>)

content_length(soup) ==
    LET word_count == soup.words
    IN  IF word_count < AdequateWords
        THEN Check("content_length", "warning", 3, 10,
                   <<"Content is quite short", word_count>>)
        ELSE IF word_count < GoodWords
        THEN Check("content_length", "pass", 7, 10,
                   <<"Content length is adequate", word_count>>)
        ELSE Check("content_length", "pass", 10, 10,
                   <<"Content length is good", word_count>>)

_check_content_factors(soup) ==
    Ret(<<image_alt_attributes(soup), content_length(soup)>>)

\* mutation: a slow page earns no points
page_load_time_unscored(load_time_ms) ==
    IF load_time_ms < FastLoadMs
    THEN Check("page_load_time", "pass", 10, 10,
               <<"Page loads quickly", load_time_ms>>)
    ELSE IF load_time_ms < SlowLoadMs
    THEN Check("page_load_time", "warning", 7, 10,
               <<"Page load time is acceptable", load_time_ms>>)
    ELSE Check("page_load_time", "fail", 0, 10,
               <<"Page loads slowly", load_time_ms>>)

\* mutation: the limits belong to the band below them
page_load_time_inclusive(load_time_ms) ==
    IF load_time_ms <= FastLoadMs
    THEN Check("page_load_time", "pass", 10, 10,
               <<"Page loads quickly", load_time_ms>>)
    ELSE IF load_time_ms <= SlowLoadMs
    THEN Check("page_load_time", "warning", 7, 10,
               <<"Page load time is acceptable", load_time_ms>>)
    ELSE Check("page_load_time", "fail", 3, 10,
               <<"Page loads slowly", load_time_ms>>)

page_load_time(load_time_ms) ==
    IF load_time_ms < FastLoadMs
    THEN Check("page_load_time", "pass", 10, 10,
               <<"Page loads quickly", load_time_ms>>)
    ELSE IF load_time_ms < SlowLoadMs
    THEN Check("page_load_time", "warning", 7, 10,
               <<"Page load time is acceptable", load_time_ms>>)
    ELSE Check("page_load_time", "fail", 3, 10,
               <<"Page loads slowly", load_time_ms>>)

\* response.headers.get('content-encoding', '')
get_content_encoding(response) ==
    IF response.content_encoding = <<>> THEN <<>>
    ELSE response.content_encoding[1]

\* mutation: the header has to be "gzip" itself
gzip_compression_exact(response) ==
    IF get_content_encoding(response) = <<"g", "z", "i", "p">>
    THEN Check("gzip_compression", "pass", 5, 5,
               <<"GZIP compression is enabled">>)
    ELSE Check("gzip_compression", "fail", 0, 5,
               <<"GZIP compression is not enabled">>)

gzip_compression(response) ==
    IF Contains(get_content_encoding(response), <<"g", "z", "i", "p">>)
    THEN Check("gzip_compression", "pass", 5, 5,
               <<"GZIP compression is enabled">>)
    ELSE Check("gzip_compression", "fail", 0, 5,
               <<"GZIP compression is not enabled">>)

_check_performance_factors(response, load_time_ms) ==
    Ret(<<page_load_time(load_time_ms), gzip_compression(response)>>)

\* mutation: a missing viewport tag only warns
viewport_meta_tag_lenient(soup) ==
    IF soup.viewport
    THEN Check("viewport_meta_tag", "pass", 10, 10,
               <<"Viewport meta tag is present">>)
    ELSE Check("viewport_meta_tag", "warning", 0, 10,
               <<"Viewport meta tag is missing">>)

viewport_meta_tag(soup) ==
    IF soup.viewport
    THEN Check("viewport_meta_tag", "pass", 10, 10,
               <<"Viewport meta tag is present">>)
    ELSE Check("viewport_meta_tag", "fail", 0, 10,
               <<"Viewport meta tag is missing">>)

_check_mobile_factors(soup) == Ret(<<viewport_meta_tag(soup)>>)

\* ----------------------------------------------------- metrics, score ----
\* links, headings, images and words are counted first (urlparse raises
\* ValueError on a malformed href), then robots.txt and the sitemap are
\* probed; of the metrics only the probe results and ssl_enabled are kept
_analyze_seo_metrics(url, soup, robots_answer, sitemap_answers) ==
    IF soup.bad_href THEN Throw("ValueError")
    ELSE LET robots_txt_exists == _check_robots_txt(robots_answer)
             sitemap_exists == _check_sitemap(sitemap_answers)
         IN  IF robots_txt_exists.raised THEN robots_txt_exists
             ELSE IF sitemap_exists.raised THEN sitemap_exists
             ELSE Ret([ ssl_enabled |-> startswith(url, HttpsPrefix),
                        robots_txt_exists |-> robots_txt_exists.value,
                        sitemap_exists |-> sitemap_exists.value ])

\* cert_answer: what the TLS handshake with port 443 does; the security
\* headers and the security score are not modelled
_analyze_security(url, cert_answer) ==
    IF ~startswith(url, HttpsPrefix)
    THEN Ret([ssl_certificate |-> <<>>, ssl_grade |-> "F"])
    ELSE IF cert_answer.raised
    THEN Ret([ssl_certificate |-> <<>>, ssl_grade |-> "C"])
    ELSE Ret([ssl_certificate |-> <<cert_answer.value>>, ssl_grade |-> "A"])

\* 'score' in check_data and 'max_score' in check_data
has_scores(check_data) ==
    "score" \in DOMAIN check_data /\ "max_score" \in DOMAIN check_data

\* mutation: the inner loop ends at the first check without the two keys
RECURSIVE add_checks_break(_, _)
add_checks_break(totals, checks) ==
    IF checks = <<>> THEN totals
    ELSE IF has_scores(Head(checks))
    THEN add_checks_break(
             [ total_score |-> totals.total_score + Head(checks).score,
               max_total_score |->
                   totals.max_total_score + Head(checks).max_score ],
             Tail(checks))
    ELSE totals

\* the inner loop: adds the checks of one category to the two totals
RECURSIVE add_checks(_, _)
add_checks(totals, checks) ==
    IF checks = <<>> THEN totals
    ELSE add_checks(
             IF has_scores(Head(checks))
             THEN [ total_score |-> totals.total_score + Head(checks).score,
                    max_total_score |->
                        totals.max_total_score + Head(checks).max_score ]
             ELSE totals,
             Tail(checks))

\* the outer loop over details.items()
RECURSIVE add_categories(_, _)
add_categories(totals, details) ==
    IF details = <<>> THEN totals
    ELSE add_categories(add_checks(totals, Head(details).checks),
                        Tail(details))

\* mutation: int() in place of round()
python_int(total_score, max_total_score) ==
    (100 * total_score) \div max_total_score

\* round((total_score / max_total_score) * 100): the nearest integer, an
\* exact tie going to the even neighbour, except that the binary
\* floating-point product is below the tie for the ratio 23/40 and above
\* it for 109/200 (the only such ratios for max_total_score < 1200)
python_round(total_score, max_total_score) ==
    LET n == 100 * total_score
        q == n \div max_total_score
        r == n % max_total_score
    IN  IF 2 * r < max_total_score THEN q
        ELSE IF 2 * r > max_total_score THEN q + 1
        ELSE IF 40 * total_score = 23 * max_total_score THEN q
        ELSE IF 200 * total_score = 109 * max_total_score THEN q + 1
        ELSE IF q % 2 = 0 THEN q ELSE q + 1

_calculate_overall_score(details) ==
    LET totals == add_categories([total_score |-> 0, max_total_score |-> 0],
                                 details)
    IN  IF totals.max_total_score = 0 THEN 0
        ELSE python_round(totals.total_score, totals.max_total_score)

\* -------------------------------------------------- security analyzer ----
\* scores with one decimal are kept in tenths
MaxAge == <<"m", "a", "x", "-", "a", "g", "e">>

IncludeSubDomains ==
    <<"i", "n", "c", "l", "u", "d", "e", "S", "u", "b", "D", "o", "m", "a",
      "i", "n", "s">>

HSTS == "strict-transport-security"

XFrameOptions == "x-frame-options"

\* self.security_headers, in the order of the dict, with the importance
HeaderNames ==
    <<HSTS, "content-security-policy", XFrameOptions,
      "x-content-type-options", "x-xss-protection", "referrer-policy",
      "permissions-policy">>

security_headers ==
    (HSTS :> "high") @@ ("content-security-policy" :> "high")
    @@ (XFrameOptions :> "medium") @@ ("x-content-type-options" :> "medium")
    @@ ("x-xss-protection" :> "low") @@ ("referrer-policy" :> "low")
    @@ ("permissions-policy" :> "medium")

_get_header_max_score(importance) ==
    IF importance = "high" THEN 20
    ELSE IF importance = "medium" THEN 15
    ELSE 10

_score_header_value(header_name, header_value) ==
    LET max_score == _get_header_max_score(security_headers[header_name])
    IN  IF header_value = <<>> THEN 0
        ELSE IF header_name = HSTS
        THEN IF Contains(header_value, MaxAge)
                  /\ Contains(header_value, IncludeSubDomains)
             THEN max_score
             ELSE IF Contains(header_value, MaxAge)
             THEN (max_score * 8) \div 10
             ELSE (max_score * 5) \div 10
        ELSE max_score

\* the response headers of a page: a function from the (lower case) names
\* that are present to their values
Value == <<"1">>

Present(names) == [n \in names |-> Value]

AllHeaders == {HeaderNames[i] : i \in 1..Len(HeaderNames)}

ResponseHeaders ==
    { Present({}),
      Present(AllHeaders \ {HSTS})
          @@ (HSTS :> MaxAge \o <<";">> \o IncludeSubDomains),
      Present(AllHeaders \ {HSTS, XFrameOptions}) @@ (HSTS :> MaxAge),
      Present(AllHeaders \ {HSTS}) @@ (HSTS :> <<"p", "r", "e">>),
      Present(AllHeaders \ {HSTS, XFrameOptions})
          @@ (HSTS :> MaxAge \o <<";">> \o IncludeSubDomains),
      Present({XFrameOptions}),
      HSTS :> <<>> }

\* the Server header: absent, a name, or a name and a version
Nginx == <<"n", "g", "i", "n", "x">>

ServerHeaders == { <<>>, <<Nginx>>, <<Nginx \o <<"/", "1">> >> }

\* the patterns the vulnerability scan looks for that occur in the page
ContentPatterns == {"src_http", "script_tag", "user"}

SecuritySites ==
    [ headers : ResponseHeaders, server : ServerHeaders,
      content : SUBSET ContentPatterns ]

\* the texts passed to analyze_security; urlparse raises on the last
MalformedUrl == <<"h", "t", "t", "p", ":", "/", "/", "[">>

TargetUrls == Urls \cup {MalformedUrl}

\* what the TLS handshake gives: the days to the expiry of the certificate,
\* the protocol and the cipher (name, protocol, bits)
Certificates ==
    [ days_until_expiry : {0 - 1, 29, 30},
      protocol : {"TLSv1.1", "TLSv1.2", "TLSv1.3"},
      cipher : { <<<<"A", "E", "S">>, "TLSv1.3", 256>>,
                 <<<<"R", "C", "4">>, "TLSv1.1", 128>> } ]

SslAnswers == {Ret(c) : c \in Certificates} \cup {Throw("SSLError")}

GetOutcomes == {"ok", "ConnectionError"}

ssl_grade(score) ==
    IF score >= 90 THEN "A+"
    ELSE IF score >= 80 THEN "A"
    ELSE IF score >= 70 THEN "B"
    ELSE IF score >= 60 THEN "C"
    ELSE IF score >= 50 THEN "D"
    ELSE "F"

\* answer: what the handshake with port 443 does
_analyze_ssl(url, answer) ==
    IF ~startswith(url, HttpsPrefix)
    THEN [ enabled |-> FALSE, grade |-> "F", score |-> 0,
           issues |-> <<"SSL not enabled">>, certificate |-> None ]
    ELSE IF answer.raised
    THEN [ enabled |-> FALSE, grade |-> "F", score |-> 0,
           issues |-> <<"SSL analysis failed">>, certificate |-> None ]
    ELSE LET cert == answer.value
             days == cert.days_until_expiry
             expiry == IF days < 0 THEN 50 ELSE IF days < 30 THEN 20 ELSE 0
             protocol ==
                 IF cert.protocol \in {"TLSv1", "TLSv1.1"} THEN 30
                 ELSE IF cert.protocol = "TLSv1.2" THEN 5
                 ELSE 0
             cipher_name == cert.cipher[1]
             cipher ==
                 IF Len(cert.cipher) >= 3
                      /\ \/ Contains(cipher_name, <<"R", "C", "4">>)
                         \/ Contains(cipher_name, <<"D", "E", "S">>)
                 THEN 25 ELSE 0
             issues ==
                 (IF days < 0 THEN <<"Certificate has expired">>
                  ELSE IF days < 30 THEN <<"Certificate expires soon">>
                  ELSE <<>>)
                 \o (IF protocol = 30 THEN <<"Outdated TLS protocol">>
                     ELSE <<>>)
                 \o (IF cipher = 25 THEN <<"Weak cipher suite">> ELSE <<>>)
             score == 100 - expiry - protocol - cipher
         IN  [ enabled |-> TRUE, grade |-> ssl_grade(score),
               score |-> IF score < 0 THEN 0 ELSE score,
               issues |-> issues, certificate |-> cert ]

header_entry(headers, header_name) ==
    LET max_score == _get_header_max_score(security_headers[header_name])
    IN  IF header_name \in DOMAIN headers
        THEN [ present |-> TRUE, value |-> headers[header_name],
               score |-> _score_header_value(header_name,
                                             headers[header_name]),
               max_score |-> max_score ]
        ELSE [ present |-> FALSE, value |-> None, score |-> 0,
               max_score |-> max_score ]

RECURSIVE SumField(_, _, _)
SumField(f, S, field) ==
    IF S = {} THEN 0
    ELSE LET x == CHOOSE y \in S : TRUE
         IN  f[x][field] + SumField(f, S \ {x}, field)

\* round(total_score / max_score * 100, 1), in tenths
header_percent(total_score, max_score) ==
    IF max_score > 0
    THEN (2000 * total_score + max_score) \div (2 * max_score)
    ELSE 0

_get_header_recommendations(header_analysis) ==
    LET missing(header_name) == ~header_analysis[header_name].present
    IN  SelectSeq(HeaderNames, missing)

\* answer: what the GET of the page does; its value is the site served
_analyze_security_headers(answer) ==
    IF answer.raised
    THEN [ overall_score |-> 0, headers |-> <<>>,
           recommendations |-> <<"Failed to analyze security headers">> ]
    ELSE LET header_analysis ==
                 [n \in AllHeaders |-> header_entry(answer.value.headers, n)]
             total_score == SumField(header_analysis, AllHeaders, "score")
             max_score == SumField(header_analysis, AllHeaders, "max_score")
         IN  [ overall_score |-> header_percent(total_score, max_score),
               headers |-> header_analysis,
               recommendations |->
                   _get_header_recommendations(header_analysis) ]

\* the scan engines are simulated and report a clean page; an exception of
\* the GET of the content analysis is passed over
_scan_for_malware(answer) ==
    [ malware_detected |-> FALSE, phishing_detected |-> FALSE,
      blacklisted |-> FALSE, content_analysed |-> ~answer.raised ]

\* the blacklists are simulated: no source lists the domain
_check_blacklists ==
    [ blacklisted |-> FALSE, clean_lists |-> 4, total_lists |-> 4,
      reputation_score |-> 100 ]

VersionChars == {"0", "1", "2", "3", "4", "5", "6", "7", "8", "9", "."}

\* re.search(r'Apache/[\d\.]+', ...) or re.search(r'nginx/[\d\.]+', ...)
discloses_version(server_header) ==
    \E c \in VersionChars :
        \/ Contains(server_header, <<"A", "p", "a", "c", "h", "e", "/", c>>)
        \/ Contains(server_header, Nginx \o <<"/", c>>)

Vulnerability(type, severity) == [type |-> type, severity |-> severity]

count_severity(vulnerabilities, severity) ==
    LET is(v) == v.severity = severity
    IN  Len(SelectSeq(vulnerabilities, is))

_scan_vulnerabilities(target, answer) ==
    IF answer.raised
    THEN [ total_vulnerabilities |-> 0, high_severity |-> 0,
           medium_severity |-> 0, low_severity |-> 0,
           vulnerabilities |-> <<>>, error |-> answer.kind ]
    ELSE LET page == answer.value
             headers == page.headers
             content == page.content
             server_header ==
                 IF page.server = <<>> THEN <<>> ELSE page.server[1]
             vulnerabilities ==
                 (IF server_header # <<>> /\ discloses_version(server_header)
                  THEN <<Vulnerability("information_disclosure", "low")>>
                  ELSE <<>>)
                 \o (IF startswith(target, HttpsPrefix)
                          /\ "src_http" \in content
                     THEN <<Vulnerability("mixed_content", "medium")>>
                     ELSE <<>>)
                 \o (IF "script_tag" \in content /\ "user" \in content
                     THEN <<Vulnerability("potential_xss", "high")>>
                     ELSE <<>>)
                 \o (IF XFrameOptions \notin DOMAIN headers
                     THEN <<Vulnerability("clickjacking", "medium")>>
                     ELSE <<>>)
         IN  [ total_vulnerabilities |-> Len(vulnerabilities),
               high_severity |-> count_severity(vulnerabilities, "high"),
               medium_severity |-> count_severity(vulnerabilities, "medium"),
               low_severity |-> count_severity(vulnerabilities, "low"),
               vulnerabilities |-> vulnerabilities ]

\* cookies, tracking scripts, privacy policy, GDPR and data collection are
\* read off the page; none of them is scored
_analyze_privacy(answer) ==
    IF answer.raised
    THEN [cookies |-> <<>>, error |-> answer.kind]
    ELSE [cookies |-> <<>>]

\* round(score, 1) of a score given in thousandths, in tenths
round_tenths(thousandths) ==
    LET q == thousandths \div 100
        r == thousandths % 100
    IN  IF r > 50 \/ (r = 50 /\ q % 2 = 1) THEN q + 1 ELSE q

\* the points of the vulnerability scan (20 %)
vulnerability_points(vuln_results) ==
    IF vuln_results.high_severity = 0
    THEN IF vuln_results.medium_severity = 0 THEN 20 ELSE 15
    ELSE IF vuln_results.high_severity <= 2 THEN 10
    ELSE 5

\* in tenths; the sum is taken in thousandths of a point
_calculate_security_score(results) ==
    LET ssl_score == results.ssl_analysis.score
        headers_score == results.security_headers.overall_score
        malware_clean == ~results.malware_scan.malware_detected
        blacklist_clean == ~results.blacklist_check.blacklisted
        clean == IF malware_clean /\ blacklist_clean THEN 25000
                 ELSE IF malware_clean \/ blacklist_clean THEN 12500
                 ELSE 0
        total == 300 * ssl_score + 25 * headers_score + clean
                 + 1000 * vulnerability_points(results.vulnerability_scan)
        rounded == round_tenths(total)
    IN  IF rounded > 1000 THEN 1000 ELSE rounded

Recommendation(type, priority) == [type |-> type, priority |-> priority]

_generate_security_recommendations(results) ==
    LET ssl_analysis == results.ssl_analysis
        headers_recommendations == results.security_headers.recommendations
        vulnerabilities == results.vulnerability_scan.vulnerabilities
    IN  (IF ~ssl_analysis.enabled
         THEN <<Recommendation("ssl", "critical")>>
         ELSE IF ssl_analysis.grade \in {"C", "D", "F"}
         THEN <<Recommendation("ssl", "high")>>
         ELSE <<>>)
        \o [i \in 1..Len(headers_recommendations) |->
                Recommendation("headers", "medium")]
        \o [i \in 1..Len(vulnerabilities) |->
                Recommendation("vulnerability",
                               IF vulnerabilities[i].severity = "high"
                               THEN "high" ELSE "medium")]

\* ------------------------------------------------------ cache service ----
DefaultTtl == 3600

KeyLimit == 100

\* the entry set() stores at the time now
Entry(value, ttl, time) ==
    [ value |-> value, created_at |-> time, accessed_at |-> time,
      expires_at |-> time + ttl ]

\* the function f without the argument k
Without(f, k) == [x \in DOMAIN f \ {k} |-> f[x]]

\* ':'.join(map(str, args)) for arguments that are texts
RECURSIVE join(_)
join(args) ==
    IF args = <<>> THEN <<>>
    ELSE IF Len(args) = 1 THEN args[1]
    ELSE args[1] \o <<":">> \o join(Tail(args))

KeyData(prefix, args) == prefix \o <<":">> \o join(args)

AnalysisPrefix == <<"a", "n", "a", "l", "y", "s", "i", "s">>

DomainInfoPrefix ==
    <<"d", "o", "m", "a", "i", "n", "_", "i", "n", "f", "o">>

BacklinksPrefix == <<"b", "a", "c", "k", "l", "i", "n", "k", "s">>

SeoType == <<"s", "e", "o">>

SecurityType == <<"s", "e", "c", "u", "r", "i", "t", "y">>

\* domains: a short one, one that has the short one inside its name, and
\* one so long that its keys are hashed
ShortDomain == <<"a", ".", "i", "o">>

OtherDomain == <<"a">> \o ShortDomain

LongDomain == Rep("a", 60) \o <<".">> \o Rep("b", 27) \o <<".", "i", "o">>

Domains == {ShortDomain, OtherDomain, LongDomain}

AnalysisTypes == {SeoType, SecurityType}

\* hashlib.md5(key_data.encode()).hexdigest() of the key data that are
\* longer than KeyLimit
md5_hexdigest(key_data) ==
    CASE key_data = KeyData(AnalysisPrefix, <<LongDomain, SeoType>>) ->
        <<"0", "b", "4", "f", "8", "0", "8", "0", "e", "e", "8",
          "0", "f", "8", "9", "6", "b", "5", "b", "2", "c", "4",
          "8", "6", "0", "7", "6", "2", "9", "3", "8", "e">>
      [] key_data = KeyData(AnalysisPrefix, <<LongDomain, SecurityType>>) ->
        <<"6", "f", "7", "8", "f", "2", "3", "6", "7", "1", "2",
          "2", "3", "9", "7", "b", "0", "0", "0", "b", "c", "e",
          "c", "4", "0", "5", "0", "8", "d", "7", "5", "c">>
      [] key_data = KeyData(DomainInfoPrefix, <<LongDomain>>) ->
        <<"0", "c", "b", "f", "1", "f", "8", "6", "1", "2", "4",
          "a", "6", "4", "d", "a", "a", "3", "e", "9", "4", "5",
          "e", "e", "c", "c", "b", "6", "a", "3", "6", "f">>
      [] key_data = KeyData(BacklinksPrefix, <<LongDomain>>) ->
        <<"d", "7", "1", "f", "8", "8", "5", "4", "6", "9", "f",
          "e", "f", "c", "b", "1", "a", "2", "c", "b", "d", "7",
          "1", "b", "4", "8", "8", "d", "b", "9", "5", "0">>

\* without keyword arguments
_generate_key(prefix, args) ==
    LET key_data == KeyData(prefix, args)
    IN  IF Len(key_data) > KeyLimit
        THEN prefix \o <<":">> \o md5_hexdigest(key_data)
        ELSE key_data

\* a call's effect on self._cache and what it returns
Call(cache, value) == [cache |-> cache, value |-> value]

\* mutation: an entry is expired from the second its ttl ends
get_expired_at_deadline(cache, key, time) ==
    IF key \notin DOMAIN cache THEN Call(cache, None)
    ELSE IF cache[key].expires_at <= time
    THEN Call(Without(cache, key), None)
    ELSE Call([cache EXCEPT ![key].accessed_at = time], cache[key].value)

get(cache, key, time) ==
    IF key \notin DOMAIN cache THEN Call(cache, None)
    ELSE IF cache[key].expires_at < time THEN Call(Without(cache, key), None)
    ELSE Call([cache EXCEPT ![key].accessed_at = time], cache[key].value)

\* ttl: <<>> for None, or <<seconds>>
set(cache, key, value, ttl, time) ==
    LET seconds == IF ttl = <<>> THEN DefaultTtl ELSE ttl[1]
    IN  Call((key :> Entry(value, seconds, time)) @@ cache, None)

delete(cache, key) ==
    IF key \in DOMAIN cache THEN Call(Without(cache, key), TRUE)
    ELSE Call(cache, FALSE)

clear(cache) == Call(<<>>, None)

cleanup_expired(cache, time) ==
    LET expired_keys == {key \in DOMAIN cache : cache[key].expires_at < time}
    IN  Call([key \in DOMAIN cache \ expired_keys |-> cache[key]],
             Cardinality(expired_keys))

\* the wrapper that cached(prefix, ttl) puts around func; result: what func
\* returns for these arguments when it is executed
wrapper(cache, prefix, ttl, args, result, time) ==
    LET cache_key == _generate_key(prefix, args)
        cached_result == get(cache, cache_key, time)
    IN  IF cached_result.value # None
        THEN [ cache |-> cached_result.cache, value |-> cached_result.value,
               executed |-> FALSE ]
        ELSE [ cache |-> set(cached_result.cache, cache_key, result, ttl,
                             time).cache,
               value |-> result, executed |-> TRUE ]

\* SEOAnalysisCache
analysis_ttl == 1800

domain_info_ttl == 3600

backlinks_ttl == 7200

analysis_key(domain, analysis_type) ==
    _generate_key(AnalysisPrefix, <<domain, analysis_type>>)

domain_info_key(domain) == _generate_key(DomainInfoPrefix, <<domain>>)

backlinks_key(domain) == _generate_key(BacklinksPrefix, <<domain>>)

get_analysis_result(cache, domain, analysis_type, time) ==
    get(cache, analysis_key(domain, analysis_type), time)

set_analysis_result(cache, domain, analysis_type, result, time) ==
    set(cache, analysis_key(domain, analysis_type), result,
        <<analysis_ttl>>, time)

get_domain_info(cache, domain, time) ==
    get(cache, domain_info_key(domain), time)

set_domain_info(cache, domain, info, time) ==
    set(cache, domain_info_key(domain), info, <<domain_info_ttl>>, time)

get_backlinks(cache, domain, time) ==
    get(cache, backlinks_key(domain), time)

set_backlinks(cache, domain, backlinks, time) ==
    set(cache, backlinks_key(domain), backlinks, <<backlinks_ttl>>, time)

\* the keys that have the text of the domain in them are deleted
invalidate_domain(cache, domain) ==
    LET keys_to_delete == {key \in DOMAIN cache : Contains(key, domain)}
    IN  Call([key \in DOMAIN cache \ keys_to_delete |-> cache[key]], None)

\* --------------------------------------------------- lead generation ----
\* LeadGenerationService (src/lead_generation_service.py).  A dictionary is
\* a function from its keys; the leads file maps the id of a lead to the
\* lead (the file has str(id) as key and capture_lead reads it back with
\* int(), which are inverse on the ids the service writes).  A timestamp is
\* the reading of a clock that advances with every call.
MaxConversionScore == 100
DefaultSourceScore == 25
HighTraffic == 10000

\* dict.get(key, default)
dict_get(d, key, default) == IF key \in DOMAIN d THEN d[key] ELSE default

\* bool(x) of an optional dictionary: None and {} are false
truthy(d) == ~IsNone(d) /\ DOMAIN d # {}

\* str.lower() on the letters that occur
lower_char(c) ==
    CASE c = "A" -> "a"
      [] c = "B" -> "b"
      [] c = "E" -> "e"
      [] c = "O" -> "o"
      [] c = "S" -> "s"
      [] OTHER -> c

lower(s) == [i \in 1..Len(s) |-> lower_char(s[i])]

\* str.replace(old, new) for a one-character old
RECURSIVE replace(_, _, _)
replace(s, old, new) ==
    IF s = <<>> THEN <<>>
    ELSE (IF Head(s) = old THEN new ELSE <<Head(s)>>)
             \o replace(Tail(s), old, new)

Larger(a, b) == IF a >= b THEN a ELSE b

Smaller(a, b) == IF a <= b THEN a ELSE b

\* max([int(k) for k in leads.keys()] + [0])
max_key(leads) ==
    IF DOMAIN leads = {} THEN 0
    ELSE CHOOSE k \in DOMAIN leads : \A j \in DOMAIN leads : j <= k

source_scores ==
    [audit_form |-> 50, pricing_page |-> 70, contact_form |-> 60,
     newsletter |-> 30, free_trial |-> 80, demo_request |-> 90,
     whitepaper_download |-> 40, webinar_signup |-> 65]

LargeCompanies ==
    { <<"5", "1", "-", "2", "0", "0">>, <<"2", "0", "1", "-", "5", "0", "0">>,
      <<"5", "0", "0", "+">> }

RelevantIndustries ==
    { <<"m", "a", "r", "k", "e", "t", "i", "n", "g">>,
      <<"a", "d", "v", "e", "r", "t", "i", "s", "i", "n", "g">>,
      <<"d", "i", "g", "i", "t", "a", "l", " ", "a", "g", "e", "n", "c", "y">>,
      <<"s", "e", "o">>,
      <<"w", "e", "b", " ", "d", "e", "v", "e", "l", "o", "p", "m", "e", "n",
        "t">> }

HighBudgets ==
    { <<"$", "1", "0", "0", "0", "-", "5", "0", "0", "0">>,
      <<"$", "5", "0", "0", "0", "+">> }

Urgent == {Str("immediate"), Str("within_month")}

\* the points the metadata of a lead add to the score of its source; a
\* value that is missing is in none of the lists
metadata_points(metadata) ==
    (IF dict_get(metadata, "company_size", <<>>) \in LargeCompanies
     THEN 20 ELSE 0)
    + (IF \E industry \in RelevantIndustries :
             Contains(lower(dict_get(metadata, "industry", <<>>)), industry)
       THEN 15 ELSE 0)
    + (IF dict_get(metadata, "budget", <<>>) \in HighBudgets
       THEN 25 ELSE 0)
    + (IF dict_get(metadata, "urgency", <<>>) \in Urgent THEN 20 ELSE 0)
    + (IF dict_get(metadata, "monthly_traffic", 0) > HighTraffic
       THEN 10 ELSE 0)

_calculate_conversion_score(source, metadata) ==
    LET base == dict_get(source_scores, source, DefaultSourceScore)
    IN  Smaller(base + (IF truthy(metadata) THEN metadata_points(metadata)
                        ELSE 0),
                MaxConversionScore)

\* a tag is the text the f-string builds
Tag(prefix, value) == prefix \o <<"_">> \o value

metadata_tags(metadata) ==
    (IF dict_get(metadata, "company_size", <<>>) # <<>>
     THEN {Tag(<<"company">>,
               replace(replace(metadata["company_size"], "-", <<"_">>),
                       "+", <<"plus">>))}
     ELSE {})
    \cup (IF dict_get(metadata, "industry", <<>>) # <<>>
          THEN {Tag(<<"industry">>,
                    replace(lower(metadata["industry"]), " ", <<"_">>))}
          ELSE {})
    \cup (IF dict_get(metadata, "budget", <<>>) # <<>>
          THEN {Tag(<<"budget">>,
                    replace(replace(replace(metadata["budget"], "$", <<>>),
                                    "-", <<"_">>),
                            "+", <<"plus">>))}
          ELSE {})
    \cup (IF dict_get(metadata, "urgency", <<>>) # <<>>
          THEN {Tag(<<"urgency">>, metadata["urgency"])}
          ELSE {})

\* the list of tags, kept as the set of its members
_generate_tags(source, metadata) ==
    {<<source>>} \cup (IF truthy(metadata) THEN metadata_tags(metadata)
                       ELSE {})

\* the lead capture_lead builds before it looks for an existing one
new_lead(lead_id, email, source, metadata, time) ==
    [id |-> lead_id,
     email |-> email,
     source |-> source,
     status |-> "new",
     metadata |-> IF truthy(metadata) THEN metadata ELSE <<>>,
     created_at |-> time,
     updated_at |-> time,
     last_contact |-> None,
     conversion_score |-> _calculate_conversion_score(source, metadata),
     tags |-> _generate_tags(source, metadata)]

\* the first lead of the file that has the e-mail address, letter case
\* aside, or None; the file is read in the order of its keys
_find_lead_by_email_exact(leads, email) ==
    LET found == {k \in DOMAIN leads : leads[k].email = email}
    IN  IF found = {} THEN None
        ELSE leads[CHOOSE k \in found : \A j \in found : k <= j]

_find_lead_by_email(leads, email) ==
    LET found == {k \in DOMAIN leads : lower(leads[k].email) = lower(email)}
    IN  IF found = {} THEN None
        ELSE leads[CHOOSE k \in found : \A j \in found : k <= j]

\* the existing lead after capture_lead has brought it up to date
updated_lead_overwritten(existing_lead, lead, metadata, time) ==
    [existing_lead EXCEPT
        !.source = lead.source,
        !.metadata = (IF truthy(metadata) THEN metadata ELSE <<>>) @@ @,
        !.updated_at = time,
        !.conversion_score = lead.conversion_score,
        !.tags = @ \cup lead.tags]

updated_lead(existing_lead, lead, metadata, time) ==
    [existing_lead EXCEPT
        !.source = lead.source,
        !.metadata = (IF truthy(metadata) THEN metadata ELSE <<>>) @@ @,
        !.updated_at = time,
        !.conversion_score = Larger(@, lead.conversion_score),
        !.tags = @ \cup lead.tags]

\* the callers of capture_lead: the request handlers of the server
Callers == {1, 2}

\* a caller that is not in capture_lead; last is what its last call did
NoCall ==
    [pc |-> "idle", email |-> <<>>, source |-> "", metadata |-> None,
     leads |-> <<>>, lead |-> None, existing_lead |-> None,
     before |-> <<>>, last |-> None]

LeadEmails ==
    { <<"a", "@", "x">>, <<"A", "@", "x">>, <<"b", "@", "x">> }

LeadSources == {"website", "demo_request"}

Metadatas ==
    { None,
      [company_size |-> <<"5", "0", "0", "+">>,
       industry |-> <<"S", "E", "O">>] }

LeadStatuses == {"contacted"}

\* ------------------------------------------------------------ reports ----
\* The report routes (src/report.py) over the reports table (Report,
\* src/audit.py) and the files of the reports directory.  The audits are
\* rows of the audits table with their status and the domain of their
\* website; a time is a second of the clock.
Audits ==
    (1 :> [status |-> "completed", domain |-> "a.io"])
    @@ (2 :> [status |-> "completed", domain |-> "a.io"])
    @@ (3 :> [status |-> "running", domain |-> "a.io"])

\* the audit ids a request names; 4 is the id of no audit
AuditIds == {1, 2, 3, 4}

\* PDFGenerator.generate_report names the file after the domain and the
\* second it is written in
pdf_file_path(domain, time) == <<"seo_report", domain, time>>

\* Report.query.filter_by(audit_id=audit_id, report_type='pdf')
pdf_reports_of(rows, audit_id) ==
    {id \in DOMAIN rows :
        rows[id].audit_id = audit_id /\ rows[id].report_type = "pdf"}

\* the primary key the database gives the next row
next_id(rows) ==
    IF DOMAIN rows = {} THEN 1
    ELSE 1 + CHOOSE k \in DOMAIN rows : \A j \in DOMAIN rows : j <= k

Response(status, body) == [status |-> status, body |-> body]

\* ---------------------------------------------------------- backlinks ----
\* BacklinkAnalyzer.analyze_backlinks (src/backlink_analyzer.py) over the
\* backlinks table (Backlink, src/audit.py).  Of a discovered backlink the
\* source, the target and the link type are kept; a URL is the pair of its
\* fixed text and the text built from the domain of the target.
directory_sites == <<"dmoz.org", "business.com", "yellowpages.com", "yelp.com">>

social_platforms ==
    <<"twitter.com", "facebook.com", "linkedin.com", "reddit.com">>

\* urlparse(target_url).netloc of the target URLs that are analysed
netloc(target_url) == target_url.netloc

backlink_data(source_domain, source_url, target_url, link_type) ==
    [source_domain |-> source_domain, source_url |-> source_url,
     target_url |-> target_url, link_type |-> link_type]

_search_engine_backlinks(target_url) ==
    LET domain == netloc(target_url)
    IN  << backlink_data("example-blog.com",
                         <<"https://example-blog.com/article-about-",
                           replace(domain, ".", <<"-">>)>>,
                         target_url, "dofollow"),
           backlink_data("news-site.com",
                         <<"https://news-site.com/industry-news-featuring-",
                           replace(domain, ".", <<"-">>)>>,
                         target_url, "dofollow") >>

\* the members of seq whose flag is set, in order
RECURSIVE Chosen(_, _)
Chosen(seq, flags) ==
    IF seq = <<>> THEN <<>>
    ELSE (IF Head(flags) THEN <<Head(seq)>> ELSE <<>>)
             \o Chosen(Tail(seq), Tail(flags))

\* listed[i]: what _simulate_directory_listing draws for directory i
_check_common_sources(target_url, listed) ==
    LET domain == netloc(target_url)
        listing(directory) ==
            backlink_data(directory, <<directory, "/listing/", domain>>,
                          target_url, "dofollow")
    IN  Chosen([i \in 1..Len(directory_sites) |->
                   listing(directory_sites[i])], listed)

\* mentioned[i]: what _simulate_social_mention draws for platform i
_check_social_mentions(target_url, mentioned) ==
    LET domain == netloc(target_url)
        mention(platform) ==
            backlink_data(platform,
                          <<platform, "/post/about-",
                            replace(domain, ".", <<"-">>)>>,
                          target_url, "nofollow")
    IN  Chosen([i \in 1..Len(social_platforms) |->
                   mention(social_platforms[i])], mentioned)

\* Backlink.query.filter_by(website_id=website_id).all(), as ids
backlinks_of(rows, website_id) ==
    {id \in DOMAIN rows : rows[id].website_id = website_id}

\* next(bl for bl in existing_backlinks if bl.source_url == source_url)
first_with_url(rows, existing, source_url) ==
    CHOOSE id \in existing :
        /\ rows[id].source_url = source_url
        /\ \A j \in existing : rows[j].source_url = source_url => id <= j

\* mutation: every backlink that was not discovered is marked lost
mark_missing_any(existing_bl, current_urls, time) ==
    IF existing_bl.source_url \notin current_urls
    THEN [existing_bl EXCEPT !.status = "lost", !.last_seen = time]
    ELSE existing_bl

\* the loop that marks the missing backlinks as lost, for one backlink
mark_missing(existing_bl, current_urls, time) ==
    IF existing_bl.source_url \notin current_urls
          /\ existing_bl.status = "active"
    THEN [existing_bl EXCEPT !.status = "lost", !.last_seen = time]
    ELSE existing_bl

\* Backlink(...) once it is committed: the defaults of the columns are set
Backlink(id, website_id, data, time) ==
    [id |-> id, website_id |-> website_id,
     source_domain |-> data.source_domain, source_url |-> data.source_url,
     target_url |-> data.target_url, link_type |-> data.link_type,
     discovered_date |-> time, last_seen |-> time, status |-> "active"]

\* the rows of the table after analyze_backlinks and what it returns
analyze_backlinks(rows, website_id, target_url, listed, mentioned, time) ==
    LET existing_backlinks == backlinks_of(rows, website_id)
        existing_urls == {rows[id].source_url : id \in existing_backlinks}
        discovered_backlinks ==
            _search_engine_backlinks(target_url)
            \o _check_common_sources(target_url, listed)
            \o _check_social_mentions(target_url, mentioned)
        current_urls ==
            {discovered_backlinks[i].source_url :
                i \in 1..Len(discovered_backlinks)}
        is_new(data) == data.source_url \notin existing_urls
        new_backlinks == SelectSeq(discovered_backlinks, is_new)
        seen == {first_with_url(rows, existing_backlinks, u) :
                    u \in current_urls \cap existing_urls}
        updated(id) ==
            IF id \in seen
            THEN [rows[id] EXCEPT !.status = "active", !.last_seen = time]
            ELSE IF id \in existing_backlinks
            THEN mark_missing(rows[id], current_urls, time)
            ELSE rows[id]
        last == next_id(rows) - 1
        lost == {id \in existing_backlinks :
                    /\ updated(id).status = "lost"
                    /\ updated(id) # rows[id]}
    IN  [rows |->
             [id \in DOMAIN rows \cup (last + 1)..(last + Len(new_backlinks))
                 |-> IF id \in DOMAIN rows THEN updated(id)
                     ELSE Backlink(id, website_id, new_backlinks[id - last],
                                   time)],
         discovered |-> current_urls,
         result |-> [total_backlinks |->
                         Cardinality(existing_backlinks) + Len(new_backlinks),
                     new_backlinks |-> Len(new_backlinks),
                     lost_backlinks |-> Cardinality(lost)]]

\* -------------------------------------------------------- white label ----
\* WhiteLabelService (src/white_label_service.py) and WhiteLabelConfig
\* (src/white_label.py).  The configurations file maps the id of a
\* configuration to its dictionary.  Of a configuration the id, the user,
\* the company name, the logo and the three colours are kept; the other
\* attributes and the two timestamps are not modelled.
ColorLength == 7

DefaultPrimaryColor == <<"#", "3", "b", "8", "2", "f", "6">>

DefaultSecondaryColor == <<"#", "1", "e", "4", "0", "a", "f">>

DefaultAccentColor == <<"#", "f", "5", "9", "e", "0", "b">>

color_fields == {"primary_color", "secondary_color", "accent_color"}

\* WhiteLabelConfig.from_dict(data)
from_dict(data) ==
    [id |-> dict_get(data, "id", None),
     user_id |-> dict_get(data, "user_id", None),
     company_name |-> dict_get(data, "company_name", <<>>),
     logo_url |-> dict_get(data, "logo_url", <<>>),
     primary_color |-> dict_get(data, "primary_color", DefaultPrimaryColor),
     secondary_color |->
         dict_get(data, "secondary_color", DefaultSecondaryColor),
     accent_color |-> dict_get(data, "accent_color", DefaultAccentColor)]

\* config.to_dict()
to_dict(config) ==
    [id |-> config.id,
     user_id |-> config.user_id,
     company_name |-> config.company_name,
     logo_url |-> config.logo_url,
     primary_color |-> config.primary_color,
     secondary_color |-> config.secondary_color,
     accent_color |-> config.accent_color]

\* mutation: a colour only has to begin with '#'
validate_prefix_only(config) ==
    (IF strip(config.company_name) = <<>> THEN {"company_name"} ELSE {})
    \cup {field \in color_fields : ~startswith(config[field], <<"#">>)}

\* config.validate(): the fields that are in error
validate(config) ==
    (IF strip(config.company_name) = <<>> THEN {"company_name"} ELSE {})
    \cup {field \in color_fields :
             \/ ~startswith(config[field], <<"#">>)
             \/ Len(config[field]) # ColorLength}

\* for key, value in config_data.items(): if hasattr(existing_config, key):
\* setattr(existing_config, key, value)
setattrs(existing_config, config_data) ==
    [key \in DOMAIN existing_config |->
        IF key \in DOMAIN config_data THEN config_data[key]
        ELSE existing_config[key]]

\* the configurations after the call and what the call returned or raised
Done(configs, outcome) == [configs |-> configs, outcome |-> outcome]

create_config(configs, user_id, config_data) ==
    LET config_id == max_key(configs) + 1
        config == [from_dict(config_data) EXCEPT !.id = config_id,
                                                 !.user_id = user_id]
    IN  IF validate(config) # {} THEN Done(configs, Throw("ValueError"))
        ELSE Done((config_id :> to_dict(config)) @@ configs, Ret(config))

get_config(configs, config_id) ==
    IF config_id \notin DOMAIN configs THEN None
    ELSE from_dict(configs[config_id])

update_config(configs, config_id, config_data) ==
    IF config_id \notin DOMAIN configs THEN Done(configs, Ret(None))
    ELSE LET existing_config ==
                 setattrs(from_dict(configs[config_id]), config_data)
         IN  IF validate(existing_config) # {}
             THEN Done(configs, Throw("ValueError"))
             ELSE Done((config_id :> to_dict(existing_config)) @@ configs,
                       Ret(existing_config))

delete_config(configs, config_id) ==
    IF config_id \notin DOMAIN configs THEN Done(configs, Ret(FALSE))
    ELSE Done([id \in DOMAIN configs \ {config_id} |-> configs[id]],
              Ret(TRUE))

\* ------------------------------------------------------------- state -----
VARIABLES
    pc,             \* where analyze_website is
    url,            \* its argument
    response,       \* the response of the page fetch
    soup,           \* the parsed page
    load_time_ms,
    seo_metrics,
    security_scan,
    details,        \* analysis_result['details'], in insertion order
    overall_score,  \* analysis_result['overall_score']
    returned,       \* the report analyze_website returned
    error,          \* the exception analyze_website raised
    probes,         \* what the remote server did to the probes of the checks
    given,          \* a details dictionary handed to the score function
    score,          \* the score of given, once calculated
    first,          \* the first score calculated for these checks
    spc,            \* where analyze_security is
    target_url,     \* its argument
    served,         \* what the server at target_url serves
    scan_answers,   \* what the connections of the sub-scans did
    security_results,
    security_returned,  \* the results analyze_security returned
    security_error,     \* the exception analyze_security raised
    _cache,         \* CacheService._cache
    now,            \* time.time()
    ticks,          \* how often the time has been advanced
    last_call,      \* the last call made on the cache and what it returned
    latest_set,     \* per key, the latest set() not deleted or cleared since
    leads_file,     \* the leads of data/leads.json, by id
    lead_clock,     \* datetime.now(), advanced by every capture_lead
    calls,          \* per caller, where its capture_lead is and its locals
    welcome_emails, \* the addresses a welcome e-mail was sent to, in order
    reports,        \* the rows of the reports table, by id
    report_files,   \* the paths of the files in the reports directory
    report_clock,   \* the second it is
    report_call,    \* the last request to a report route and its response
    backlinks_table,  \* the rows of the backlinks table, by id
    backlink_runs,  \* how many analyses have run; also the time
    backlink_call,  \* the last analyze_backlinks and what it found
    configs_file,   \* the configurations of white_label_configs.json, by id
    created_for,    \* per stored configuration, the user it was created for
    config_call     \* the last call on the white label service

avars == <<pc, url, response, soup, load_time_ms, seo_metrics, security_scan,
           details, overall_score, returned, error, probes>>

svars == <<given, score, first>>

xvars == <<spc, target_url, served, scan_answers, security_results,
           security_returned, security_error>>

kvars == <<_cache, now, ticks, last_call, latest_set>>

lvars == <<leads_file, lead_clock, calls, welcome_emails>>

rvars == <<reports, report_files, report_clock, report_call>>

\* the state of the services outside the analyzers and the cache
bvars == <<backlinks_table, backlink_runs, backlink_call>>

wvars == <<configs_file, created_for, config_call>>

ovars == <<lvars, rvars, bvars, wvars>>

vars == <<avars, svars, xvars, kvars, ovars>>

\* no score calculated yet
NoScore == <<>>

InitAnalysis ==
    /\ pc = "fetch"
    /\ url = <<>>
    /\ response = None
    /\ soup = None
    /\ load_time_ms = 0
    /\ seo_metrics = None
    /\ security_scan = None
    /\ details = <<>>
    /\ overall_score = 0
    /\ returned = None
    /\ error = None
    /\ probes = [robots_txt |-> <<>>, sitemap |-> <<>>, certificate |-> <<>>]

\* no security analysis has been asked for
InitSecurity ==
    /\ spc = "start"
    /\ target_url = <<>>
    /\ served = None
    /\ scan_answers = [ssl |-> <<>>, headers |-> <<>>, vulnerability |-> <<>>,
                       privacy |-> <<>>]
    /\ security_results = None
    /\ security_returned = None
    /\ security_error = None

\* CacheService(): an empty cache
InitCache ==
    /\ _cache = <<>>
    /\ now = 0
    /\ ticks = 0
    /\ last_call = [op |-> "__init__"]
    /\ latest_set = <<>>

\* no leads file yet, nobody is calling
InitLeads ==
    /\ leads_file = <<>>
    /\ lead_clock = 0
    /\ calls = [p \in Callers |-> NoCall]
    /\ welcome_emails = <<>>

\* no report has been generated
InitReports ==
    /\ reports = <<>>
    /\ report_files = {}
    /\ report_clock = 0
    /\ report_call = [op |-> "none"]

\* no backlink is known
InitBacklinks ==
    /\ backlinks_table = <<>>
    /\ backlink_runs = 0
    /\ backlink_call = [op |-> "none"]

\* no configurations file yet
InitWhiteLabel ==
    /\ configs_file = <<>>
    /\ created_for = <<>>
    /\ config_call = [op |-> "none"]

InitServices ==
    /\ InitLeads
    /\ InitReports
    /\ InitBacklinks
    /\ InitWhiteLabel

Init ==
    /\ InitAnalysis
    /\ given = <<>>
    /\ score = NoScore
    /\ first = NoScore
    /\ InitSecurity
    /\ InitCache
    /\ InitServices

\* mutation: the handler returns what has been collected so far
ReturnPartialReport(e) ==
    /\ pc' = "done"
    /\ error' = error
    /\ returned' = [ overall_score |-> overall_score,
                     details |-> details,
                     seo_metrics |-> seo_metrics,
                     security_scan |-> security_scan ]

\* except requests.exceptions.RequestException as e
ExceptRequestException(e) ==
    /\ pc' = "raised"
    /\ error' = [message |-> "Failed to fetch website", cause |-> e]
    /\ returned' = None

\* except Exception as e
ExceptException(e) ==
    /\ pc' = "raised"
    /\ error' = [message |-> "Analysis failed", cause |-> e]
    /\ returned' = None

\* session.get, raise_for_status, BeautifulSoup and the load time
Fetch ==
    /\ pc = "fetch"
    /\ \E u \in Urls, outcome \in FetchOutcomes :
          /\ url' = u
          /\ IF outcome = "ok"
             THEN \E final \in Urls, site \in Sites :
                    /\ response' = [ outcome |-> "ok", url |-> final,
                                     content_encoding |->
                                         site.content_encoding ]
                    /\ soup' = [ title |-> site.title,
                                 meta_description |-> site.meta_description,
                                 h1 |-> site.h1, img |-> site.img,
                                 bad_href |-> site.bad_href,
                                 words |-> site.words,
                                 viewport |-> site.viewport ]
                    /\ load_time_ms' = site.load_time_ms
                    /\ pc' = "seo_metrics"
                    /\ UNCHANGED <<returned, error>>
             ELSE /\ response' = [outcome |-> outcome]
                  /\ ExceptRequestException(outcome)
                  /\ UNCHANGED <<soup, load_time_ms>>
    /\ UNCHANGED <<seo_metrics, security_scan, details, overall_score,
                   probes>>
    /\ UNCHANGED <<svars, xvars, kvars, ovars>>

AnalyzeSeoMetrics ==
    /\ pc = "seo_metrics"
    /\ \E robots_answer \in RobotsAnswers,
          sitemap_answers \in [1..2 -> ProbeAnswers] :
          LET r == _analyze_seo_metrics(url, soup, robots_answer,
                                        sitemap_answers)
          IN  IF r.raised
              THEN ExceptException(r.kind) /\ UNCHANGED seo_metrics
              ELSE /\ seo_metrics' = r.value
                   /\ pc' = "security"
                   /\ UNCHANGED <<returned, error>>
    /\ UNCHANGED <<url, response, soup, load_time_ms, security_scan, details,
                   overall_score, probes>>
    /\ UNCHANGED <<svars, xvars, kvars, ovars>>

CertAnswers == {Ret("certificate"), Throw("HandshakeError")}

AnalyzeSecurity ==
    /\ pc = "security"
    /\ \E cert_answer \in CertAnswers :
          LET r == _analyze_security(url, cert_answer)
          IN  /\ probes' = [probes EXCEPT !.certificate =
                               IF startswith(url, HttpsPrefix)
                               THEN <<cert_answer>> ELSE <<>>]
              /\ IF r.raised
                 THEN ExceptException(r.kind) /\ UNCHANGED security_scan
                 ELSE /\ security_scan' = r.value
                      /\ pc' = "seo"
                      /\ UNCHANGED <<returned, error>>
    /\ UNCHANGED <<url, response, soup, load_time_ms, seo_metrics, details,
                   overall_score>>
    /\ UNCHANGED <<svars, xvars, kvars, ovars>>

\* analysis_result['details'][category] = checks, or the exception of the
\* call that was to compute them
StoreChecks(category, r, next) ==
    IF r.raised
    THEN ExceptException(r.kind) /\ UNCHANGED details
    ELSE /\ details' = Append(details,
                              [category |-> category, checks |-> r.value])
         /\ pc' = next
         /\ UNCHANGED <<returned, error>>

CheckSeoFactors ==
    /\ pc = "seo"
    /\ StoreChecks("seo", _check_seo_factors(url, soup, response),
                   "technical")
    /\ UNCHANGED <<url, response, soup, load_time_ms, seo_metrics,
                   security_scan, overall_score, probes>>
    /\ UNCHANGED <<svars, xvars, kvars, ovars>>

CheckTechnicalFactors ==
    /\ pc = "technical"
    /\ \E robots_answer \in RobotsAnswers,
          sitemap_answers \in [1..2 -> ProbeAnswers] :
          /\ probes' = [probes EXCEPT !.robots_txt = <<robots_answer>>,
                                      !.sitemap = sitemap_answers]
          /\ StoreChecks("technical",
                         _check_technical_factors(url, robots_answer,
                                                  sitemap_answers),
                         "content")
    /\ UNCHANGED <<url, response, soup, load_time_ms, seo_metrics,
                   security_scan, overall_score>>
    /\ UNCHANGED <<svars, xvars, kvars, ovars>>

CheckContentFactors ==
    /\ pc = "content"
    /\ StoreChecks("content", _check_content_factors(soup), "performance")
    /\ UNCHANGED <<url, response, soup, load_time_ms, seo_metrics,
                   security_scan, overall_score, probes>>
    /\ UNCHANGED <<svars, xvars, kvars, ovars>>

CheckPerformanceFactors ==
    /\ pc = "performance"
    /\ StoreChecks("performance",
                   _check_performance_factors(response, load_time_ms),
                   "mobile")
    /\ UNCHANGED <<url, response, soup, load_time_ms, seo_metrics,
                   security_scan, overall_score, probes>>
    /\ UNCHANGED <<svars, xvars, kvars, ovars>>

CheckMobileFactors ==
    /\ pc = "mobile"
    /\ StoreChecks("mobile", _check_mobile_factors(soup), "score")
    /\ UNCHANGED <<url, response, soup, load_time_ms, seo_metrics,
                   security_scan, overall_score, probes>>
    /\ UNCHANGED <<svars, xvars, kvars, ovars>>

\* the score is calculated and the report returned
CalculateOverallScore ==
    /\ pc = "score"
    /\ overall_score' = _calculate_overall_score(details)
    /\ returned' = [ overall_score |-> overall_score',
                     details |-> details,
                     seo_metrics |-> seo_metrics,
                     security_scan |-> security_scan ]
    /\ pc' = "done"
    /\ UNCHANGED <<url, response, soup, load_time_ms, seo_metrics,
                   security_scan, details, error, probes>>
    /\ UNCHANGED <<svars, xvars, kvars, ovars>>

Next ==
    \/ Fetch
    \/ AnalyzeSeoMetrics
    \/ AnalyzeSecurity
    \/ CheckSeoFactors
    \/ CheckTechnicalFactors
    \/ CheckContentFactors
    \/ CheckPerformanceFactors
    \/ CheckMobileFactors
    \/ CalculateOverallScore

Spec == Init /\ [][Next]_vars

\* ------------------------------------------- the score function alone ----
CategoryNames == <<"seo", "technical", "content", "performance", "mobile">>

CheckNames == <<"title_tag", "robots_txt", "h1_tag">>

\* values a check can have: two scored ones and one without the keys
CheckData ==
    { [status |-> "warning", score |-> 7, max_score |-> 10],
      [status |-> "warning", score |-> 0, max_score |-> 5],
      [status |-> "info"] }

CheckDicts ==
    UNION { { [i \in 1..n |-> [name |-> CheckNames[i]] @@ data[i]] :
                data \in [1..n -> CheckData] } : n \in 0..MaxChecks }

\* the dictionary of the first n categories with the given checks
DetailsDict(n, checks) ==
    [c \in 1..n |-> [category |-> CategoryNames[c], checks |-> checks[c]]]

InitScore ==
    /\ InitAnalysis
    /\ \E n \in 0..MaxCategories :
          \E checks \in [1..n -> CheckDicts] : given = DetailsDict(n, checks)
    /\ score = NoScore
    /\ first = NoScore
    /\ InitSecurity
    /\ InitCache
    /\ InitServices

Swap(seq, i) == [seq EXCEPT ![i] = seq[i + 1], ![i + 1] = seq[i]]

\* the categories and the checks of d are in the order they were built in
InBuildOrder(d) ==
    /\ \A c \in 1..Len(d) : d[c].category = CategoryNames[c]
    /\ \A c \in 1..Len(d) :
          \A i \in 1..Len(d[c].checks) : d[c].checks[i].name = CheckNames[i]

\* _calculate_overall_score(given)
Calculate ==
    /\ score = NoScore
    /\ score' = <<_calculate_overall_score(given)>>
    /\ first' = IF first = NoScore THEN score' ELSE first
    /\ UNCHANGED given
    /\ UNCHANGED <<avars, xvars, kvars, ovars>>

\* the same checks, with two neighbouring categories built in the other
\* order
SwapCategories ==
    /\ score # NoScore
    /\ InBuildOrder(given)
    /\ \E c \in 1..(Len(given) - 1) :
          /\ given' = Swap(given, c)
          /\ score' = NoScore
          /\ UNCHANGED first
    /\ UNCHANGED <<avars, xvars, kvars, ovars>>

\* the same checks, with two neighbouring checks of a category built in the
\* other order
SwapChecks ==
    /\ score # NoScore
    /\ InBuildOrder(given)
    /\ \E c \in 1..Len(given) :
          \E i \in 1..(Len(given[c].checks) - 1) :
              /\ given' = [given EXCEPT ![c].checks = Swap(@, i)]
              /\ score' = NoScore
              /\ UNCHANGED first
    /\ UNCHANGED <<avars, xvars, kvars, ovars>>

NextScore ==
    \/ Calculate
    \/ SwapCategories
    \/ SwapChecks

SpecScore == InitScore /\ [][NextScore]_vars

\* ------------------------------------------- analyze_security, stepwise --
\* what a GET of the page does: it answers with the page or it raises
PageAnswer(outcome) == IF outcome = "ok" THEN Ret(served) ELSE Throw(outcome)

\* parsed_url = urlparse(target_url), or the exception it raises
StartSecurity ==
    /\ spc = "start"
    /\ \E u \in TargetUrls, page \in SecuritySites :
          /\ target_url' = u
          /\ served' = page
          /\ IF u = MalformedUrl
             THEN /\ spc' = "raised"
                  /\ security_error' =
                        [ message |-> "Security analysis failed",
                          cause |-> "ValueError" ]
             ELSE /\ spc' = "ssl_analysis"
                  /\ UNCHANGED security_error
    /\ security_results' =
          [ ssl_analysis |-> None, security_headers |-> None,
            malware_scan |-> None, blacklist_check |-> None,
            vulnerability_scan |-> None, privacy_analysis |-> None,
            overall_score |-> 0, recommendations |-> <<>> ]
    /\ UNCHANGED <<scan_answers, security_returned>>
    /\ UNCHANGED <<avars, svars, kvars, ovars>>

AnalyzeSsl ==
    /\ spc = "ssl_analysis"
    /\ \E answer \in SslAnswers :
          /\ scan_answers' =
                [scan_answers EXCEPT !.ssl =
                    IF startswith(target_url, HttpsPrefix) THEN <<answer>>
                    ELSE <<>>]
          /\ security_results' =
                [security_results EXCEPT !.ssl_analysis =
                    _analyze_ssl(target_url, answer)]
    /\ spc' = "security_headers"
    /\ UNCHANGED <<target_url, served, security_returned, security_error>>
    /\ UNCHANGED <<avars, svars, kvars, ovars>>

AnalyzeSecurityHeaders ==
    /\ spc = "security_headers"
    /\ \E outcome \in GetOutcomes :
          /\ scan_answers' =
                [scan_answers EXCEPT !.headers = <<PageAnswer(outcome)>>]
          /\ security_results' =
                [security_results EXCEPT !.security_headers =
                    _analyze_security_headers(PageAnswer(outcome))]
    /\ spc' = "malware_scan"
    /\ UNCHANGED <<target_url, served, security_returned, security_error>>
    /\ UNCHANGED <<avars, svars, kvars, ovars>>

\* _scan_for_malware(target_url) and _check_blacklists(domain)
ScanForMalware ==
    /\ spc = "malware_scan"
    /\ \E outcome \in GetOutcomes :
          security_results' =
              [security_results EXCEPT
                  !.malware_scan = _scan_for_malware(PageAnswer(outcome)),
                  !.blacklist_check = _check_blacklists]
    /\ spc' = "vulnerability_scan"
    /\ UNCHANGED <<target_url, served, scan_answers, security_returned,
                   security_error>>
    /\ UNCHANGED <<avars, svars, kvars, ovars>>

ScanVulnerabilities ==
    /\ spc = "vulnerability_scan"
    /\ \E outcome \in GetOutcomes :
          /\ scan_answers' =
                [scan_answers EXCEPT
                    !.vulnerability = <<PageAnswer(outcome)>>]
          /\ security_results' =
                [security_results EXCEPT !.vulnerability_scan =
                    _scan_vulnerabilities(target_url, PageAnswer(outcome))]
    /\ spc' = "privacy_analysis"
    /\ UNCHANGED <<target_url, served, security_returned, security_error>>
    /\ UNCHANGED <<avars, svars, kvars, ovars>>

AnalyzePrivacy ==
    /\ spc = "privacy_analysis"
    /\ \E outcome \in GetOutcomes :
          /\ scan_answers' =
                [scan_answers EXCEPT !.privacy = <<PageAnswer(outcome)>>]
          /\ security_results' =
                [security_results EXCEPT !.privacy_analysis =
                    _analyze_privacy(PageAnswer(outcome))]
    /\ spc' = "overall_score"
    /\ UNCHANGED <<target_url, served, security_returned, security_error>>
    /\ UNCHANGED <<avars, svars, kvars, ovars>>

\* the score, the recommendations and the return of the results
CalculateSecurityScore ==
    /\ spc = "overall_score"
    /\ LET scored == [security_results EXCEPT !.overall_score =
                         _calculate_security_score(security_results)]
           final == [scored EXCEPT !.recommendations =
                        _generate_security_recommendations(scored)]
       IN  /\ security_results' = final
           /\ security_returned' = final
    /\ spc' = "done"
    /\ UNCHANGED <<target_url, served, scan_answers, security_error>>
    /\ UNCHANGED <<avars, svars, kvars, ovars>>

NextSecurity ==
    \/ StartSecurity
    \/ AnalyzeSsl
    \/ AnalyzeSecurityHeaders
    \/ ScanForMalware
    \/ ScanVulnerabilities
    \/ AnalyzePrivacy
    \/ CalculateSecurityScore

SpecSecurity == Init /\ [][NextSecurity]_vars

\* ----------------------------------------------- cache service, calls ----
Keys == {<<"a">>, <<"b">>}

\* cached values; None is a value like any other
Values == {None, [data |-> 1], [data |-> 2]}

\* the ttl argument: None (left out) or a number of seconds
Ttls == {<<>>, <<1>>}

\* the seconds that pass between two calls
TimeSteps == {1, DefaultTtl}

Tick ==
    /\ ticks < MaxTicks
    /\ ticks' = ticks + 1
    /\ \E seconds \in TimeSteps : now' = now + seconds
    /\ last_call' = [op |-> "sleep"]
    /\ UNCHANGED <<_cache, latest_set>>
    /\ UNCHANGED <<avars, svars, xvars, ovars>>

\* the set() just made, as the history keeps it
Remember(key, value, ttl) ==
    (key :> [value |-> value, time |-> now, ttl |-> ttl]) @@ latest_set

Set ==
    /\ \E key \in Keys, value \in Values, ttl \in Ttls :
          /\ _cache' = set(_cache, key, value, ttl, now).cache
          /\ last_call' = [op |-> "set", key |-> key, value |-> None]
          /\ latest_set' = Remember(key, value, ttl)
    /\ UNCHANGED <<now, ticks>>
    /\ UNCHANGED <<avars, svars, xvars, ovars>>

Get ==
    /\ \E key \in Keys :
          LET call == get(_cache, key, now)
          IN  /\ _cache' = call.cache
              /\ last_call' = [op |-> "get", key |-> key,
                               value |-> call.value]
    /\ UNCHANGED <<now, ticks, latest_set>>
    /\ UNCHANGED <<avars, svars, xvars, ovars>>

Delete ==
    /\ \E key \in Keys :
          LET call == delete(_cache, key)
          IN  /\ _cache' = call.cache
              /\ last_call' = [op |-> "delete", key |-> key,
                               value |-> call.value]
              /\ latest_set' = IF key \in DOMAIN latest_set
                               THEN Without(latest_set, key)
                               ELSE latest_set
    /\ UNCHANGED <<now, ticks>>
    /\ UNCHANGED <<avars, svars, xvars, ovars>>

Clear ==
    /\ _cache' = clear(_cache).cache
    /\ last_call' = [op |-> "clear", value |-> None]
    /\ latest_set' = <<>>
    /\ UNCHANGED <<now, ticks>>
    /\ UNCHANGED <<avars, svars, xvars, ovars>>

CleanupExpired ==
    /\ LET call == cleanup_expired(_cache, now)
       IN  /\ _cache' = call.cache
           /\ last_call' = [op |-> "cleanup_expired", value |-> call.value]
    /\ UNCHANGED <<now, ticks, latest_set>>
    /\ UNCHANGED <<avars, svars, xvars, ovars>>

NextCache ==
    \/ Tick
    \/ Set
    \/ Get
    \/ Delete
    \/ Clear
    \/ CleanupExpired

SpecCache == Init /\ [][NextCache]_vars

\* ------------------------------------------------- cached functions ----
\* the functions decorated with cached(prefix) and with cached(prefix, 1)
Decorated ==
    { [prefix |-> <<"f">>, ttl |-> <<>>], [prefix |-> <<"g">>, ttl |-> <<1>>] }

\* the argument lists they are called with
ArgLists == { << <<"x">>, <<"y">> >> }

\* a call of a decorated function
CallWrapped ==
    /\ \E func \in Decorated, args \in ArgLists, result \in Values :
          LET key == _generate_key(func.prefix, args)
              call == wrapper(_cache, func.prefix, func.ttl, args, result,
                              now)
          IN  /\ _cache' = call.cache
              /\ last_call' =
                    [ op |-> "wrapper", key |-> key, ttl |-> func.ttl,
                      value |-> call.value, executed |-> call.executed,
                      before |-> IF key \in DOMAIN latest_set
                                 THEN <<latest_set[key]>> ELSE <<>> ]
              /\ latest_set' = IF call.executed
                               THEN Remember(key, result, func.ttl)
                               ELSE latest_set
    /\ UNCHANGED <<now, ticks>>
    /\ UNCHANGED <<avars, svars, xvars, ovars>>

NextCached ==
    \/ Tick
    \/ CallWrapped

SpecCached == Init /\ [][NextCached]_vars

\* ------------------------------------------------ SEO analysis cache ----
CachedData == {[data |-> 1]}

HasRoom == Cardinality(DOMAIN _cache) < MaxEntries

\* a setter of SEOAnalysisCache: the cache after it and the key it wrote
Store(cache, key, ttl) ==
    /\ _cache' = cache
    /\ last_call' = [op |-> "set", key |-> key, value |-> None]
    /\ latest_set' = Remember(key, cache[key].value, <<ttl>>)

\* the cache is filled with up to MaxEntries entries
SetAnalysisResult ==
    /\ HasRoom
    /\ \E domain \in Domains, analysis_type \in AnalysisTypes,
          result \in CachedData :
          Store(set_analysis_result(_cache, domain, analysis_type, result,
                                    now).cache,
                analysis_key(domain, analysis_type), analysis_ttl)
    /\ UNCHANGED <<now, ticks>>
    /\ UNCHANGED <<avars, svars, xvars, ovars>>

SetDomainInfo ==
    /\ HasRoom
    /\ \E domain \in Domains, info \in CachedData :
          Store(set_domain_info(_cache, domain, info, now).cache,
                domain_info_key(domain), domain_info_ttl)
    /\ UNCHANGED <<now, ticks>>
    /\ UNCHANGED <<avars, svars, xvars, ovars>>

SetBacklinks ==
    /\ HasRoom
    /\ \E domain \in Domains, backlinks \in CachedData :
          Store(set_backlinks(_cache, domain, backlinks, now).cache,
                backlinks_key(domain), backlinks_ttl)
    /\ UNCHANGED <<now, ticks>>
    /\ UNCHANGED <<avars, svars, xvars, ovars>>

\* a getter of SEOAnalysisCache
Fetched(call, name, domain) ==
    /\ _cache' = call.cache
    /\ last_call' = [op |-> name, domain |-> domain, value |-> call.value]

GetAnalysisResult ==
    /\ \E domain \in Domains, analysis_type \in AnalysisTypes :
          Fetched(get_analysis_result(_cache, domain, analysis_type, now),
                  "get_analysis_result", domain)
    /\ UNCHANGED <<now, ticks, latest_set>>
    /\ UNCHANGED <<avars, svars, xvars, ovars>>

GetDomainInfo ==
    /\ \E domain \in Domains :
          Fetched(get_domain_info(_cache, domain, now), "get_domain_info",
                  domain)
    /\ UNCHANGED <<now, ticks, latest_set>>
    /\ UNCHANGED <<avars, svars, xvars, ovars>>

GetBacklinks ==
    /\ \E domain \in Domains :
          Fetched(get_backlinks(_cache, domain, now), "get_backlinks",
                  domain)
    /\ UNCHANGED <<now, ticks, latest_set>>
    /\ UNCHANGED <<avars, svars, xvars, ovars>>

InvalidateDomain ==
    /\ \E domain \in Domains :
          LET call == invalidate_domain(_cache, domain)
          IN  /\ _cache' = call.cache
              /\ last_call' =
                    [ op |-> "invalidate_domain", domain |-> domain,
                      value |-> None, before |-> _cache ]
              /\ latest_set' =
                    [key \in DOMAIN latest_set \cap DOMAIN call.cache |->
                        latest_set[key]]
    /\ UNCHANGED <<now, ticks>>
    /\ UNCHANGED <<avars, svars, xvars, ovars>>

\* the calls are made within the ttl of the entries
NextSeoCache ==
    \/ SetAnalysisResult
    \/ SetDomainInfo
    \/ SetBacklinks
    \/ GetAnalysisResult
    \/ GetDomainInfo
    \/ GetBacklinks
    \/ InvalidateDomain

SpecSeoCache == Init /\ [][NextSeoCache]_vars

\* ----------------------------------------------- capture_lead, stepwise --
\* capture_lead reads the leads file, reads it again to look for the e-mail
\* address, writes the file and, for a new lead, sends the welcome e-mail.
\* Each of the two reads and the write is one step of the caller.

\* leads = self._load_leads(); the id and the lead are built
LoadLeads(p) ==
    /\ calls[p].pc = "idle"
    /\ lead_clock < MaxCalls
    /\ \E email \in LeadEmails, source \in LeadSources,
          metadata \in Metadatas :
          LET leads == leads_file
              lead_id == max_key(leads) + 1
          IN  calls' = [calls EXCEPT ![p] =
                  [@ EXCEPT !.pc = "find",
                            !.email = email,
                            !.source = source,
                            !.metadata = metadata,
                            !.leads = leads,
                            !.lead = new_lead(lead_id, email, source,
                                              metadata, lead_clock + 1),
                            !.before = leads]]
    /\ lead_clock' = lead_clock + 1
    /\ UNCHANGED <<leads_file, welcome_emails>>
    /\ UNCHANGED <<avars, svars, xvars, kvars, rvars, bvars,
                   wvars>>

\* existing_lead = self._find_lead_by_email(email), from the file as it is
FindLeadByEmail(p) ==
    /\ calls[p].pc = "find"
    /\ calls' = [calls EXCEPT ![p].pc = "save",
                              ![p].existing_lead =
                                  _find_lead_by_email(leads_file,
                                                      calls[p].email)]
    /\ UNCHANGED <<leads_file, lead_clock, welcome_emails>>
    /\ UNCHANGED <<avars, svars, xvars, kvars, rvars, bvars,
                   wvars>>

\* what a returned call leaves behind for the caller
Returned(c, after, result, welcomed) ==
    [NoCall EXCEPT !.last =
        [email |-> c.email, source |-> c.source, metadata |-> c.metadata,
         before |-> c.before, after |-> after, result |-> result,
         welcomed |-> welcomed]]

\* the lead is put into the leads read at first and these are written; an
\* existing lead is returned at once
SaveLeads(p) ==
    /\ calls[p].pc = "save"
    /\ LET c == calls[p]
       IN  IF ~IsNone(c.existing_lead)
           THEN LET existing_lead == updated_lead(c.existing_lead, c.lead,
                                                  c.metadata, lead_clock)
                    leads == (existing_lead.id :> existing_lead) @@ c.leads
                IN  /\ leads_file' = leads
                    /\ calls' = [calls EXCEPT ![p] =
                           Returned(c, leads, existing_lead, FALSE)]
           ELSE LET leads == (c.lead.id :> c.lead) @@ c.leads
                IN  /\ leads_file' = leads
                    /\ calls' = [calls EXCEPT ![p].pc = "welcome",
                                              ![p].leads = leads]
    /\ UNCHANGED <<lead_clock, welcome_emails>>
    /\ UNCHANGED <<avars, svars, xvars, kvars, rvars, bvars,
                   wvars>>

\* self._send_welcome_email(lead); the new lead is returned
SendWelcomeEmail(p) ==
    /\ calls[p].pc = "welcome"
    /\ welcome_emails' = Append(welcome_emails, calls[p].lead.email)
    /\ calls' = [calls EXCEPT ![p] =
           Returned(calls[p], calls[p].leads, calls[p].lead, TRUE)]
    /\ UNCHANGED <<leads_file, lead_clock>>
    /\ UNCHANGED <<avars, svars, xvars, kvars, rvars, bvars,
                   wvars>>

\* update_lead_status(lead_id, status), between two calls of capture_lead
UpdateLeadStatus ==
    /\ \A p \in Callers : calls[p].pc = "idle"
    /\ \E lead_id \in 1..MaxCalls, status \in LeadStatuses :
          IF lead_id \notin DOMAIN leads_file
          THEN UNCHANGED leads_file
          ELSE leads_file' = [leads_file EXCEPT
                                 ![lead_id].status = status,
                                 ![lead_id].updated_at = lead_clock]
    /\ UNCHANGED <<lead_clock, calls, welcome_emails>>
    /\ UNCHANGED <<avars, svars, xvars, kvars, rvars, bvars,
                   wvars>>

\* the calls of capture_lead come one after the other
NextLeads ==
    \/ LoadLeads(1)
    \/ FindLeadByEmail(1)
    \/ SaveLeads(1)
    \/ SendWelcomeEmail(1)
    \/ UpdateLeadStatus

SpecLeads == Init /\ [][NextLeads]_vars

\* two request handlers call capture_lead once each, at the same time: the
\* service takes no lock, so their steps come in any order
CaptureLeadOnce(p) ==
    /\ IsNone(calls[p].last)
    /\ LoadLeads(p)

NextLeadsConcurrent ==
    \E p \in Callers :
        \/ CaptureLeadOnce(p)
        \/ FindLeadByEmail(p)
        \/ SaveLeads(p)
        \/ SendWelcomeEmail(p)

SpecLeadsConcurrent == Init /\ [][NextLeadsConcurrent]_vars

\* ------------------------------------------------------ report routes ----
\* what a request to a report route found and answered
ReportCall(op, id, answer) ==
    [op |-> op, id |-> id, reports |-> reports, files |-> report_files,
     response |-> answer]

\* POST /reports/generate with audit_id in the body; first() of a query
\* without ORDER BY returns any one of the rows; pdf: whether the PDF
\* generator writes the file or raises
GenerateReport ==
    /\ \E audit_id \in AuditIds, pdf \in {"written", "raised"} :
          IF audit_id \notin DOMAIN Audits
          THEN \* get_or_404 raises NotFound, which the except clause takes
               /\ report_call' = ReportCall("generate", audit_id,
                                            Response(500, None))
               /\ UNCHANGED <<reports, report_files>>
          ELSE IF Audits[audit_id].status # "completed"
          THEN /\ report_call' = ReportCall("generate", audit_id,
                                            Response(400, None))
               /\ UNCHANGED <<reports, report_files>>
          ELSE \E existing \in
                   IF pdf_reports_of(reports, audit_id) = {} THEN {0}
                   ELSE pdf_reports_of(reports, audit_id) :
               IF existing # 0 /\ reports[existing].file_path \in report_files
               THEN /\ report_call' =
                          ReportCall("generate", audit_id,
                              Response(HTTP_OK, [report_id |-> existing]))
                    /\ UNCHANGED <<reports, report_files>>
               ELSE IF pdf = "raised"
               THEN /\ report_call' = ReportCall("generate", audit_id,
                                                 Response(500, None))
                    /\ UNCHANGED <<reports, report_files>>
               ELSE LET file_path == pdf_file_path(Audits[audit_id].domain,
                                                   report_clock)
                        id == next_id(reports)
                    IN  /\ Cardinality(DOMAIN reports) < MaxReports
                        /\ report_files' = report_files \cup {file_path}
                        /\ reports' =
                               (id :> [id |-> id, audit_id |-> audit_id,
                                       report_type |-> "pdf",
                                       file_path |-> file_path,
                                       download_count |-> 0,
                                       created_at |-> report_clock])
                               @@ reports
                        /\ report_call' =
                               ReportCall("generate", audit_id,
                                   Response(201, [report_id |-> id]))
    /\ UNCHANGED report_clock
    /\ UNCHANGED <<avars, svars, xvars, kvars, lvars, bvars,
                   wvars>>

\* DELETE /reports/<report_id>: the file, if it is there, and the row
DeleteReport ==
    /\ \E report_id \in 1..MaxReports :
          IF report_id \notin DOMAIN reports
          THEN /\ report_call' = ReportCall("delete", report_id,
                                            Response(500, None))
               /\ UNCHANGED <<reports, report_files>>
          ELSE /\ report_files' = report_files \ {reports[report_id].file_path}
               /\ reports' = [id \in DOMAIN reports \ {report_id} |->
                                 reports[id]]
               /\ report_call' = ReportCall("delete", report_id,
                                            Response(HTTP_OK, None))
    /\ UNCHANGED report_clock
    /\ UNCHANGED <<avars, svars, xvars, kvars, lvars, bvars,
                   wvars>>

\* a second passes
NextSecond ==
    /\ report_clock < MaxSeconds
    /\ report_clock' = report_clock + 1
    /\ UNCHANGED <<reports, report_files, report_call>>
    /\ UNCHANGED <<avars, svars, xvars, kvars, lvars, bvars,
                   wvars>>

NextReports ==
    \/ GenerateReport
    \/ DeleteReport
    \/ NextSecond

SpecReports == Init /\ [][NextReports]_vars

\* ------------------------------------------------- backlink analysis ----
BacklinkTargets == {[scheme |-> "https", netloc |-> <<"a", ".", "i", "o">>]}

\* what the simulated look-ups draw for the four sites of a list
NoSite == <<FALSE, FALSE, FALSE, FALSE>>

FirstSite == <<TRUE, FALSE, FALSE, FALSE>>

SecondSite == <<FALSE, TRUE, FALSE, FALSE>>

\* the analyses that are asked for, as <<website_id, listed, mentioned>>:
\* website 1 with a directory and a platform found or not, website 2 with
\* none found
Analyses ==
    ({1} \X {NoSite, FirstSite, SecondSite} \X {NoSite, FirstSite})
    \cup {<<2, NoSite, NoSite>>}

AnalyzeBacklinks ==
    /\ backlink_runs < MaxRuns
    /\ \E analysis \in Analyses, target \in BacklinkTargets :
          LET website_id == analysis[1]
              call == analyze_backlinks(backlinks_table, website_id, target,
                                        analysis[2], analysis[3],
                                        backlink_runs + 1)
          IN  /\ backlinks_table' = call.rows
              /\ backlink_call' =
                     [op |-> "analyze_backlinks", website_id |-> website_id,
                      before |-> backlinks_table, after |-> call.rows,
                      discovered |-> call.discovered,
                      result |-> call.result]
    /\ backlink_runs' = backlink_runs + 1
    /\ UNCHANGED <<avars, svars, xvars, kvars, lvars, rvars,
                   wvars>>

\* PUT /backlinks/<backlink_id> with a status, between two analyses
UpdateBacklink ==
    /\ backlink_runs < MaxRuns
    /\ \E backlink_id \in DOMAIN backlinks_table,
          status \in {"broken"} :
          backlinks_table' =
              [backlinks_table EXCEPT ![backlink_id].status = status,
                                      ![backlink_id].last_seen =
                                          backlink_runs]
    /\ UNCHANGED <<backlink_runs, backlink_call>>
    /\ UNCHANGED <<avars, svars, xvars, kvars, lvars, rvars,
                   wvars>>

NextBacklinks ==
    \/ AnalyzeBacklinks
    \/ UpdateBacklink

SpecBacklinks == Init /\ [][NextBacklinks]_vars

\* ------------------------------------------------ white label service ----
UserIds == {1, 2}

Acme == <<"A", "c", "m", "e">>

\* the dictionaries a caller sends
ConfigDatas ==
    { [company_name |-> Acme],
      [company_name |-> <<" ", " ">>],
      [company_name |-> Acme, primary_color |-> <<"#", "f", "f", "f">>],
      [accent_color |-> <<"3", "b", "8", "2", "f", "6", "x">>],
      [id |-> 2],
      [user_id |-> 2],
      [template |-> "modern"] }

CreateConfig ==
    /\ Cardinality(DOMAIN configs_file) < MaxConfigs
    /\ \E user_id \in UserIds, config_data \in ConfigDatas :
          LET call == create_config(configs_file, user_id, config_data)
          IN  /\ configs_file' = call.configs
              /\ created_for' =
                     IF call.outcome.raised THEN created_for
                     ELSE (call.outcome.value.id :> user_id) @@ created_for
              /\ config_call' =
                     [op |-> "create_config", user_id |-> user_id,
                      config_data |-> config_data, outcome |-> call.outcome]
    /\ UNCHANGED <<avars, svars, xvars, kvars, lvars, rvars, bvars>>

UpdateConfig ==
    /\ \E config_id \in 1..MaxConfigs, config_data \in ConfigDatas :
          LET call == update_config(configs_file, config_id, config_data)
          IN  /\ configs_file' = call.configs
              /\ config_call' =
                     [op |-> "update_config", config_id |-> config_id,
                      config_data |-> config_data, outcome |-> call.outcome]
    /\ UNCHANGED created_for
    /\ UNCHANGED <<avars, svars, xvars, kvars, lvars, rvars, bvars>>

DeleteConfig ==
    /\ \E config_id \in 1..MaxConfigs :
          LET call == delete_config(configs_file, config_id)
          IN  /\ configs_file' = call.configs
              /\ created_for' = [id \in DOMAIN created_for \ {config_id} |->
                                    created_for[id]]
              /\ config_call' =
                     [op |-> "delete_config", config_id |-> config_id,
                      outcome |-> call.outcome]
    /\ UNCHANGED <<avars, svars, xvars, kvars, lvars, rvars, bvars>>

NextWhiteLabel ==
    \/ CreateConfig
    \/ UpdateConfig
    \/ DeleteConfig

SpecWhiteLabel == Init /\ [][NextWhiteLabel]_vars

\* ------------------------------------------------------------ properties --
\* the places <<category index, check index>> of the checks of d
Positions(d) ==
    UNION { {<<c, i>> : i \in 1..Len(d[c].checks)} : c \in 1..Len(d) }

CheckAt(d, p) == d[p[1]].checks[p[2]]

HasCheck(d, name) == \E p \in Positions(d) : CheckAt(d, p).name = name

TheCheck(d, name) ==
    CheckAt(d, CHOOSE p \in Positions(d) : CheckAt(d, p).name = name)

Is(check, status, points, max_points) ==
    /\ check.status = status
    /\ check.score = points
    /\ check.max_score = max_points

RECURSIVE SumOver(_, _, _)
SumOver(d, P, field) ==
    IF P = {} THEN 0
    ELSE LET p == CHOOSE q \in P : TRUE
         IN  CheckAt(d, p)[field] + SumOver(d, P \ {p}, field)

Scored(d) ==
    {p \in Positions(d) : {"score", "max_score"} \subseteq DOMAIN CheckAt(d, p)}

Points(d) == SumOver(d, Scored(d), "score")

MaxPoints(d) == SumOver(d, Scored(d), "max_score")

Abs(x) == IF x < 0 THEN 0 - x ELSE x

\* C1: the overall score of a details dictionary is an integer in 0..100; it
\* is 0 when the maximum points of all checks of all categories sum to 0, and
\* otherwise it is 100 * (sum of points) / (sum of maximum points) rounded to
\* the nearest integer.
Thm_C1 ==
    score # NoScore =>
        /\ score[1] \in 0..100
        /\ IF MaxPoints(given) = 0
           THEN score[1] = 0
           ELSE 2 * Abs(100 * Points(given) - score[1] * MaxPoints(given))
                    <= MaxPoints(given)

\* a score that had to be rounded up
Wit_C1 ==
    /\ score # NoScore
    /\ MaxPoints(given) > 0
    /\ 2 * ((100 * Points(given)) % MaxPoints(given)) > MaxPoints(given)

\* C2: when the page fetch raises, analyze_website raises the one error
\* "Failed to fetch website" and returns no report, and no check was run.
Thm_C2 ==
    (~IsNone(response) /\ response.outcome # "ok") =>
        /\ pc = "raised"
        /\ IsNone(returned)
        /\ ~IsNone(error)
        /\ error.message = "Failed to fetch website"
        /\ error.cause = response.outcome
        /\ details = <<>>

Wit_C2 ==
    /\ ~IsNone(response)
    /\ response.outcome = "Timeout"
    /\ pc = "raised"

\* the sitemap probe that raised, if one did: the first, or the second after
\* the first was answered with another status than 200
SitemapProbeRaised ==
    /\ probes.sitemap # <<>>
    /\ \/ probes.sitemap[1].raised
       \/ /\ probes.sitemap[1].value # HTTP_OK
          /\ probes.sitemap[2].raised

AllChecks ==
    {"title_tag", "meta_description", "h1_tag", "ssl_certificate",
     "robots_txt", "xml_sitemap", "image_alt_attributes", "content_length",
     "page_load_time", "gzip_compression", "viewport_meta_tag"}

\* C3: after a successful fetch no exception of the robots.txt probe, of a
\* sitemap probe or of the certificate handshake makes analyze_website raise;
\* the report it returns is complete, the check of a probe that raised is
\* 'warning' with 0/5, and ssl_certificate is empty when the handshake raised.
Thm_C3 ==
    /\ pc = "raised" =>
          \/ error.message = "Failed to fetch website"
          \/ error.cause \notin {"ProbeError", "HandshakeError"}
    /\ pc = "done" =>
          /\ \A name \in AllChecks : HasCheck(returned.details, name)
          /\ probes.robots_txt[1].raised =>
                Is(TheCheck(returned.details, "robots_txt"), "warning", 0, 5)
          /\ SitemapProbeRaised =>
                Is(TheCheck(returned.details, "xml_sitemap"), "warning", 0, 5)
          /\ (probes.certificate # <<>> /\ probes.certificate[1].raised) =>
                returned.security_scan.ssl_certificate = <<>>

Wit_C3 ==
    /\ pc = "done"
    /\ probes.robots_txt[1].raised
    /\ SitemapProbeRaised
    /\ probes.certificate # <<>>
    /\ probes.certificate[1].raised
    /\ ~IsNone(returned)

\* C4: the title_tag check is 'fail' 0/10 when there is no <title> or its
\* trimmed text is empty, 'warning' 7/10 when the trimmed text is longer than
\* 60 characters and 'pass' 10/10 otherwise; 60 characters pass, 61 warn.
Thm_C4 ==
    HasCheck(details, "title_tag") =>
        LET check == TheCheck(details, "title_tag")
        IN  /\ IF soup.title = <<>> \/ Len(strip(soup.title[1])) = 0
               THEN Is(check, "fail", 0, 10)
               ELSE IF Len(strip(soup.title[1])) > 60
               THEN Is(check, "warning", 7, 10)
               ELSE Is(check, "pass", 10, 10)
            /\ soup.title \in {<<Rep("a", 60)>>, <<Pad(Rep("a", 60))>>}
                  => Is(check, "pass", 10, 10)
            /\ soup.title = <<Rep("a", 61)>> => Is(check, "warning", 7, 10)

Wit_C4 ==
    /\ pc = "done"
    /\ soup.title = <<Pad(Rep("a", 60))>>
    /\ Is(TheCheck(details, "title_tag"), "pass", 10, 10)

\* C5: the xml_sitemap check is 'pass' 5/5 when a probe that was made was
\* answered with 200 (the first, or the second after the first was answered
\* with another status); otherwise it is 'warning' 0/5, also when the first
\* probe raised and the second would have been answered with 200.
Thm_C5 ==
    HasCheck(details, "xml_sitemap") =>
        LET check == TheCheck(details, "xml_sitemap")
            one == probes.sitemap[1]
            two == probes.sitemap[2]
        IN  IF \/ (~one.raised /\ one.value = 200)
               \/ (~one.raised /\ ~two.raised /\ two.value = 200)
            THEN Is(check, "pass", 5, 5)
            ELSE Is(check, "warning", 0, 5)

Wit_C5 ==
    /\ pc = "done"
    /\ probes.sitemap[1].raised
    /\ ~probes.sitemap[2].raised
    /\ probes.sitemap[2].value = 200
    /\ Is(TheCheck(details, "xml_sitemap"), "warning", 0, 5)

\* C6: the ssl_certificate check is 'pass' 10/10 if the URL the page was
\* fetched from (the final URL of the response) has the scheme https, and
\* 'fail' 0/10 otherwise, whatever the certificate handshake does.
Claim_C6 ==
    HasCheck(details, "ssl_certificate") =>
        IF startswith(response.url, HttpsPrefix)
        THEN Is(TheCheck(details, "ssl_certificate"), "pass", 10, 10)
        ELSE Is(TheCheck(details, "ssl_certificate"), "fail", 0, 10)

\* the images of the page that have no alt text
WithoutAlt ==
    {i \in 1..Len(soup.img) : soup.img[i] \in {<<>>, << <<>> >>}}

\* C7: the image_alt_attributes check is 'info' 5/5 when the page has no
\* <img>, 'pass' 10/10 when every <img> has a non-empty alt, and otherwise
\* 'warning' 5/10 with the number of images without alt text in its message.
Thm_C7 ==
    HasCheck(details, "image_alt_attributes") =>
        LET check == TheCheck(details, "image_alt_attributes")
        IN  IF Len(soup.img) = 0 THEN Is(check, "info", 5, 5)
            ELSE IF WithoutAlt = {} THEN Is(check, "pass", 10, 10)
            ELSE /\ Is(check, "warning", 5, 10)
                 /\ check.message[2] = Cardinality(WithoutAlt)

Wit_C7 ==
    /\ pc = "done"
    /\ Len(soup.img) = 2
    /\ Cardinality(WithoutAlt) = 1
    /\ soup.img[1] = << <<>> >>
    /\ Is(TheCheck(details, "image_alt_attributes"), "warning", 5, 10)

\* C8: every score calculated for the same checks, with the categories or
\* the checks of a category in another order, equals the first one.
Thm_C8 == score # NoScore => score = first

\* a score calculated again after a check without points changed places with
\* a check with points
Wit_C8 ==
    /\ score # NoScore
    /\ score[1] > 0
    /\ ~InBuildOrder(given)
    /\ \E c \in 1..Len(given) :
          /\ Len(given[c].checks) >= 2
          /\ given[c].checks[1].name = CheckNames[2]
          /\ ~has_scores(given[c].checks[1])
          /\ has_scores(given[c].checks[2])
          /\ given[c].checks[2].score > 0

\* C9: the meta_description check is 'fail' 0/10 when there is no
\* <meta name="description"> or its trimmed content is empty, 'warning' 7/10
\* when the trimmed content is longer than 160 characters, and 'pass' 10/10
\* otherwise; 160 characters pass.
Thm_C9 ==
    HasCheck(details, "meta_description") =>
        LET check == TheCheck(details, "meta_description")
            metas == soup.meta_description
            content == IF metas[1] = <<>> THEN <<>> ELSE strip(metas[1][1])
        IN  /\ IF metas = <<>> \/ Len(content) = 0
               THEN Is(check, "fail", 0, 10)
               ELSE IF Len(content) > 160
               THEN Is(check, "warning", 7, 10)
               ELSE Is(check, "pass", 10, 10)
            /\ metas \in { << <<Rep("a", 160)>> >>,
                            << <<Pad(Rep("a", 160))>> >> }
                  => Is(check, "pass", 10, 10)
            /\ metas = << <<Rep("a", 161)>> >> => Is(check, "warning", 7, 10)

Wit_C9 ==
    /\ pc = "done"
    /\ soup.meta_description = << <<Pad(Rep("a", 160))>> >>
    /\ Is(TheCheck(details, "meta_description"), "pass", 10, 10)

\* C10: the h1_tag check is 'fail' 0/10 when the page has no <h1>, 'pass'
\* 10/10 when it has exactly one and 'warning' 5/10 when it has two or more.
Thm_C10 ==
    HasCheck(details, "h1_tag") =>
        LET check == TheCheck(details, "h1_tag")
        IN  IF Len(soup.h1) = 0 THEN Is(check, "fail", 0, 10)
            ELSE IF Len(soup.h1) = 1 THEN Is(check, "pass", 10, 10)
            ELSE Is(check, "warning", 5, 10)

Wit_C10 ==
    /\ pc = "done"
    /\ Len(soup.h1) >= 2
    /\ Is(TheCheck(details, "h1_tag"), "warning", 5, 10)

\* C11: the robots_txt check is 'pass' 5/5 exactly when the probe of
\* /robots.txt was answered with status 200, and 'warning' 0/5 for every
\* other status and when the probe raised.
Thm_C11 ==
    HasCheck(details, "robots_txt") =>
        LET check == TheCheck(details, "robots_txt")
            probe == probes.robots_txt[1]
        IN  /\ Is(check, "pass", 5, 5) <=> (~probe.raised /\ probe.value = 200)
            /\ (probe.raised \/ probe.value # 200) =>
                  Is(check, "warning", 0, 5)

Wit_C11 ==
    /\ pc = "done"
    /\ ~probes.robots_txt[1].raised
    /\ probes.robots_txt[1].value = 503
    /\ ~probes.sitemap[1].raised
    /\ probes.sitemap[1].value = 200
    /\ Is(TheCheck(details, "robots_txt"), "warning", 0, 5)

\* C12: the content_length check is 'warning' 3/10 when the page has fewer
\* than 300 words, 'pass' 7/10 when it has 300 to 499 words, and 'pass' 10/10
\* when it has 500 words or more.
Thm_C12 ==
    HasCheck(details, "content_length") =>
        LET check == TheCheck(details, "content_length")
        IN  IF soup.words < 300 THEN Is(check, "warning", 3, 10)
            ELSE IF soup.words <= 499 THEN Is(check, "pass", 7, 10)
            ELSE Is(check, "pass", 10, 10)

Wit_C12 ==
    /\ pc = "done"
    /\ soup.words = 300
    /\ Is(TheCheck(details, "content_length"), "pass", 7, 10)

\* C13: the page_load_time check is 'pass' 10/10 when the load time is below
\* 1000 ms, 'warning' 7/10 when it is at least 1000 ms and below 3000 ms, and
\* 'fail' 3/10 when it is 3000 ms or more.
Thm_C13 ==
    HasCheck(details, "page_load_time") =>
        LET check == TheCheck(details, "page_load_time")
        IN  IF load_time_ms < 1000 THEN Is(check, "pass", 10, 10)
            ELSE IF load_time_ms < 3000 THEN Is(check, "warning", 7, 10)
            ELSE Is(check, "fail", 3, 10)

Wit_C13 ==
    /\ pc = "done"
    /\ load_time_ms = 1000
    /\ Is(TheCheck(details, "page_load_time"), "warning", 7, 10)

\* the Content-Encoding header of the page response has "gzip" in its value
HeaderHasGzip ==
    /\ response.content_encoding # <<>>
    /\ LET value == response.content_encoding[1]
       IN  \E i \in 1..Len(value) :
              /\ i + 3 <= Len(value)
              /\ <<value[i], value[i + 1], value[i + 2], value[i + 3]>>
                    = <<"g", "z", "i", "p">>

\* C14: the gzip_compression check is 'pass' 5/5 if the Content-Encoding
\* header of the page response contains "gzip", and 'fail' 0/5 otherwise,
\* also when the response has no such header.
Thm_C14 ==
    HasCheck(details, "gzip_compression") =>
        LET check == TheCheck(details, "gzip_compression")
        IN  IF HeaderHasGzip THEN Is(check, "pass", 5, 5)
            ELSE Is(check, "fail", 0, 5)

Wit_C14 ==
    /\ pc = "done"
    /\ HeaderHasGzip
    /\ response.content_encoding[1] # <<"g", "z", "i", "p">>
    /\ Is(TheCheck(details, "gzip_compression"), "pass", 5, 5)

\* C15: the viewport_meta_tag check is 'pass' 10/10 if the page has a
\* <meta name="viewport"> element and 'fail' 0/10 otherwise.
Thm_C15 ==
    HasCheck(details, "viewport_meta_tag") =>
        LET check == TheCheck(details, "viewport_meta_tag")
        IN  IF soup.viewport THEN Is(check, "pass", 10, 10)
            ELSE Is(check, "fail", 0, 10)

Wit_C15 ==
    /\ pc = "done"
    /\ ~soup.viewport
    /\ Is(TheCheck(details, "viewport_meta_tag"), "fail", 0, 10)

\* C16: every check in the details of a returned report has a status among
\* pass, warning, fail and info, a score and a max_score; its max_score is 5
\* or 10 and its score is from 0 to max_score.
Thm_C16 ==
    ~IsNone(returned) =>
        \A p \in Positions(returned.details) :
            LET check == CheckAt(returned.details, p)
            IN  /\ {"status", "score", "max_score"} \subseteq DOMAIN check
                /\ check.status \in {"pass", "warning", "fail", "info"}
                /\ check.max_score \in {5, 10}
                /\ 0 <= check.score
                /\ check.score <= check.max_score

Wit_C16 ==
    /\ ~IsNone(returned)
    /\ \A name \in AllChecks : HasCheck(returned.details, name)
    /\ TheCheck(returned.details, "image_alt_attributes").status = "info"
    /\ Is(TheCheck(returned.details, "xml_sitemap"), "pass", 5, 5)

\* the connection of a sub-scan raised
SubScanFailed(answers) == answers # <<>> /\ answers[1].raised

\* the overall score had the sub-scan reported this instead
ScoreWith(results) == _calculate_security_score(results)

\* C17: a sub-scan of analyze_security (SSL, security headers, vulnerability
\* scan) whose connection raises does not make the analysis raise, and it
\* adds no more points to overall_score than the same sub-scan adds when it
\* completes and reports missing headers or vulnerabilities.
Claim_C17 ==
    /\ spc = "raised" => target_url = MalformedUrl
    /\ spc = "done" =>
          /\ SubScanFailed(scan_answers.ssl) =>
                \A c \in Certificates :
                    security_returned.overall_score <=
                        ScoreWith([security_results EXCEPT !.ssl_analysis =
                                      _analyze_ssl(target_url, Ret(c))])
          /\ SubScanFailed(scan_answers.headers) =>
                LET completed == _analyze_security_headers(Ret(served))
                IN  completed.recommendations # <<>> =>
                        security_returned.overall_score <=
                            ScoreWith([security_results EXCEPT
                                          !.security_headers = completed])
          /\ SubScanFailed(scan_answers.vulnerability) =>
                LET completed == _scan_vulnerabilities(target_url,
                                                       Ret(served))
                IN  completed.total_vulnerabilities > 0 =>
                        security_returned.overall_score <=
                            ScoreWith([security_results EXCEPT
                                          !.vulnerability_scan = completed])

\* the call before this state was get(key)
JustGot(key) == last_call.op = "get" /\ last_call.key = key

\* the time has not passed the time of the latest set of key plus its ttl
StillValid(key) ==
    /\ key \in DOMAIN latest_set
    /\ LET s == latest_set[key]
       IN  now <= s.time + (IF s.ttl = <<>> THEN 3600 ELSE s.ttl[1])

\* C18: whatever set, get, delete, clear and cleanup_expired calls were made
\* and however the time passed between them, get(key) returns the value of
\* the latest set(key, value, ttl) if the entry was not deleted or cleared
\* since and the time has not passed the time of that set plus ttl (3600 s
\* when no ttl was given), and None in every other case; a get that finds an
\* expired entry removes it from the cache.
Thm_C18 ==
    \A key \in Keys :
        JustGot(key) =>
            IF StillValid(key)
            THEN last_call.value = latest_set[key].value
            ELSE /\ last_call.value = None
                 /\ key \notin DOMAIN _cache

Wit_C18 ==
    /\ JustGot(<<"a">>)
    /\ <<"a">> \in DOMAIN latest_set
    /\ latest_set[<<"a">>].ttl = <<>>
    /\ now = latest_set[<<"a">>].time + 3600 + 1
    /\ <<"b">> \in DOMAIN _cache
    /\ last_call.value = None

\* C19: when a function decorated with cached(prefix, ttl) is called again
\* with the same arguments before the ttl of the entry of the earlier call
\* has elapsed, the stored result is returned and the function is not
\* executed again, whatever value it returned.
Claim_C19 ==
    (/\ last_call.op = "wrapper"
     /\ last_call.before # <<>>
     /\ now <= last_call.before[1].time
                  + (IF last_call.ttl = <<>> THEN 3600 ELSE last_call.ttl[1]))
    => /\ ~last_call.executed
       /\ last_call.value = last_call.before[1].value

\* C20: after invalidate_domain(d) the cache holds nothing for d:
\* get_analysis_result(d, t) for every analysis type t, get_domain_info(d)
\* and get_backlinks(d) return None, whatever the domain d and whatever was
\* cached before.
Claim_C20 ==
    last_call.op = "invalidate_domain" =>
        LET d == last_call.domain
        IN  /\ \A t \in AnalysisTypes :
                  get_analysis_result(_cache, d, t, now).value = None
            /\ get_domain_info(_cache, d, now).value = None
            /\ get_backlinks(_cache, d, now).value = None

\* the last call of capture_lead that caller p has returned from
LastCall(p) == calls[p].last

\* the e-mail address of the call was stored when the call began
WasStored(call) == ~IsNone(_find_lead_by_email(call.before, call.email))

\* the leads of a file other than lead k are the same in both files
SameBut(before, after, k) ==
    \A j \in DOMAIN before \ {k} : j \in DOMAIN after /\ after[j] = before[j]

\* C21: the leads file never holds two leads whose e-mail addresses are
\* equal letter case aside; a capture_lead of a stored address brings the
\* stored lead up to date under its id, status and created_at, adds no lead
\* and sends no welcome e-mail; a capture_lead of a new address adds exactly
\* one lead, with the id that follows the largest stored id.
Thm_C21 ==
    /\ \A j, k \in DOMAIN leads_file :
          lower(leads_file[j].email) = lower(leads_file[k].email) => j = k
    /\ LET call == LastCall(1)
       IN  ~IsNone(call) =>
           IF WasStored(call)
           THEN LET old == _find_lead_by_email(call.before, call.email)
                IN  /\ DOMAIN call.after = DOMAIN call.before
                    /\ SameBut(call.before, call.after, old.id)
                    /\ call.result = call.after[old.id]
                    /\ call.result.id = old.id
                    /\ call.result.status = old.status
                    /\ call.result.created_at = old.created_at
                    /\ ~call.welcomed
           ELSE LET lead_id == max_key(call.before) + 1
                IN  /\ DOMAIN call.after = DOMAIN call.before \cup {lead_id}
                    /\ lead_id \notin DOMAIN call.before
                    /\ SameBut(call.before, call.after, lead_id)
                    /\ call.after[lead_id].id = lead_id
                    /\ call.after[lead_id].email = call.email
                    /\ call.result = call.after[lead_id]

\* an address is captured again in other letters, after the status of its
\* lead was changed
Wit_C21 ==
    LET call == LastCall(1)
    IN  /\ ~IsNone(call)
        /\ WasStored(call)
        /\ call.result.email # call.email
        /\ call.result.status = "contacted"
        /\ Cardinality(DOMAIN leads_file) = 2

\* C22: no step lowers the conversion_score of a stored lead, and the write
\* of a capture_lead that found the address stored leaves the lead with the
\* larger of its score and the score of the new source and metadata.
Thm_C22 ==
    [][/\ \A k \in DOMAIN leads_file :
             /\ k \in DOMAIN leads_file'
             /\ leads_file'[k].conversion_score
                    >= leads_file[k].conversion_score
       /\ \A p \in Callers :
             (calls[p].pc = "save" /\ ~IsNone(calls[p].existing_lead)) =>
                 LET k == calls[p].existing_lead.id
                 IN  leads_file'[k].conversion_score =
                         Larger(leads_file[k].conversion_score,
                                _calculate_conversion_score(
                                    calls[p].source, calls[p].metadata))]_vars

\* a stored lead was captured again from a source that scores lower, and
\* kept its score
Wit_C22 ==
    LET call == LastCall(1)
    IN  /\ ~IsNone(call)
        /\ WasStored(call)
        /\ call.result.conversion_score >
               _calculate_conversion_score(call.source, call.metadata)
        /\ call.result.source = call.source

\* both callers have returned from a capture_lead of an address that was not
\* stored, and the two addresses differ
BothCaptured ==
    /\ \A p \in Callers :
          /\ calls[p].pc = "idle"
          /\ ~IsNone(LastCall(p))
          /\ ~WasStored(LastCall(p))
    /\ lower(LastCall(1).email) # lower(LastCall(2).email)

\* C28: when two concurrent capture_lead calls of two different addresses,
\* neither stored before, have both returned, the leads file holds a lead
\* of each address, under two ids.
Claim_C28 ==
    BothCaptured =>
        \E j, k \in DOMAIN leads_file :
            /\ j # k
            /\ leads_file[j].email = LastCall(1).email
            /\ leads_file[k].email = LastCall(2).email

\* C29: invalidate_domain(d) leaves the entries of every other domain as
\* they were: get_analysis_result, get_domain_info and get_backlinks of a
\* domain other than d return after the call what they returned before it.
Claim_C29 ==
    last_call.op = "invalidate_domain" =>
        \A other \in Domains \ {last_call.domain} :
            /\ \A t \in AnalysisTypes :
                  get_analysis_result(_cache, other, t, now).value =
                      get_analysis_result(last_call.before, other, t,
                                          now).value
            /\ get_domain_info(_cache, other, now).value =
                   get_domain_info(last_call.before, other, now).value
            /\ get_backlinks(_cache, other, now).value =
                   get_backlinks(last_call.before, other, now).value

\* analyze_website has returned a report
Reported == pc = "done" /\ ~IsNone(returned)

\* C26: in a returned report robots_txt_exists of the metrics is true
\* exactly when the robots_txt check is 'pass', and sitemap_exists exactly
\* when the xml_sitemap check is 'pass', whatever the server answered to the
\* probes.
Claim_C26 ==
    Reported =>
        /\ returned.seo_metrics.robots_txt_exists
               <=> TheCheck(returned.details, "robots_txt").status = "pass"
        /\ returned.seo_metrics.sitemap_exists
               <=> TheCheck(returned.details, "xml_sitemap").status = "pass"

\* C27: a returned report has an overall_score from 12 to 100: the maximum
\* points of its eleven checks sum to 90 for a page without images and to 95
\* for a page with images, and the checks award at least 11 points.
Thm_C27 ==
    Reported =>
        /\ returned.overall_score \in 12..100
        /\ {CheckAt(returned.details, p).name :
                p \in Positions(returned.details)} = AllChecks
        /\ MaxPoints(returned.details) = IF soup.img = <<>> THEN 90 ELSE 95
        /\ Points(returned.details) >= 11

\* a report of a page with images that has exactly 11 points is scored 12
Wit_C27 ==
    /\ Reported
    /\ Points(returned.details) = 11
    /\ soup.img # <<>>
    /\ returned.overall_score = 12

\* the pdf reports of an audit whose file was there when the request came
PresentReports(call) ==
    {id \in pdf_reports_of(call.reports, call.id) :
        call.reports[id].file_path \in call.files}

\* C23: a request to generate the report of an audit that has a pdf Report
\* with its file present is answered with the id of such a report and adds
\* no row and no file; a row is added only for a completed audit, and a
\* request for an audit of another status is answered 400 and adds nothing.
Claim_C23 ==
    report_call.op = "generate" =>
        /\ PresentReports(report_call) # {} =>
              /\ report_call.response.status = HTTP_OK
              /\ report_call.response.body.report_id
                     \in PresentReports(report_call)
              /\ reports = report_call.reports
              /\ report_files = report_call.files
        /\ reports # report_call.reports =>
              /\ report_call.id \in DOMAIN Audits
              /\ Audits[report_call.id].status = "completed"
        /\ (/\ report_call.id \in DOMAIN Audits
            /\ Audits[report_call.id].status # "completed") =>
              /\ report_call.response.status = 400
              /\ reports = report_call.reports
              /\ report_files = report_call.files

\* the backlinks the last analysis found stored for its website
StoredBefore ==
    backlinks_of(backlink_call.before, backlink_call.website_id)

Invalid(config) ==
    \/ \A i \in 1..Len(config.company_name) : config.company_name[i] = " "
    \/ \E field \in {"primary_color", "secondary_color", "accent_color"} :
          \/ config[field] = <<>>
          \/ config[field][1] # "#"
          \/ Len(config[field]) # 7

\* C25: every stored configuration is valid, and a create_config or an
\* update_config whose configuration is not valid raises ValueError and
\* leaves the configurations file as it was.
Thm_C25 ==
    [][/\ \A id \in DOMAIN configs_file' : ~Invalid(configs_file'[id])
       /\ LET call == config_call'
          IN  /\ (call.op = "create_config"
                     /\ Invalid(from_dict(call.config_data))) =>
                    /\ call.outcome = Throw("ValueError")
                    /\ configs_file' = configs_file
              /\ (call.op = "update_config"
                     /\ call.config_id \in DOMAIN configs_file
                     /\ Invalid(setattrs(configs_file[call.config_id],
                                         call.config_data))) =>
                    /\ call.outcome = Throw("ValueError")
                    /\ configs_file' = configs_file]_vars

\* an update of a stored configuration with a colour of four characters was
\* refused
Wit_C25 ==
    /\ config_call.op = "update_config"
    /\ config_call.config_id \in DOMAIN configs_file
    /\ "primary_color" \in DOMAIN config_call.config_data
    /\ config_call.outcome = Throw("ValueError")

\* C30: every stored configuration is stored under its own id and has the
\* user_id it was created with, and get_config(i) returns None or a
\* configuration whose id is i.
Claim_C30 ==
    \A i \in 1..MaxConfigs :
        /\ i \in DOMAIN configs_file =>
              /\ configs_file[i].id = i
              /\ configs_file[i].user_id = created_for[i]
        /\ LET config == get_config(configs_file, i)
           IN  IsNone(config) \/ config.id = i

====
